---- MODULE Spec2Model ----
(***************************************************************************)
(* Spittle: the transcription pipeline of src-tauri/src/pipeline.rs, the   *)
(* text-injection calls of src-tauri/src/clipboard.rs it makes, and the    *)
(* pure text helpers they use; the stop request of actions.rs; the domain  *)
(* selector of managers/domain_selector.rs; apply_corrections of jargon.rs *)
(* (which reads every character as itself, see its section) and its        *)
(* compute_active_dictionary; replay_hypotheses of rolling_harness.rs; the *)
(* key events of clipboard::apply_text_diff; the background model load of  *)
(* managers/transcription.rs; selection calls running concurrently.        *)
(*                                                                         *)
(* Text is a sequence of characters; a character is a one-letter string.   *)
(*   "a"        an ASCII letter                                            *)
(*   " "  "n"   a space, a newline (both whitespace)                       *)
(*   "."        closing punctuation     "("   an opening bracket           *)
(*   "Z"        a CJK character in its traditional form (3 bytes of UTF-8) *)
(*   "S"        the same character in its simplified form (3 bytes)        *)
(*   "w"        the zero-width space U+200B (3 bytes)                      *)
(*   "@"        an @file reference the workspace resolves to one file      *)
(*   "/"        the absolute path that reference is rewritten to           *)
(***************************************************************************)
EXTENDS Integers, Sequences, FiniteSets, TLC

\* ------------------------------------------------------------------ bounds

\* Longest remaining chunk / rewrite result enumerated exhaustively.
MaxLen == 1

\* Most pre-emitted segments a run is constructed with.
MaxSegments == 1

\* Longest text of the two-letter alphabet handed to compute_text_diff.
MaxDiffLen == 3

\* Most selection calls made on one DomainSelectorManager.
MaxCalls == 2

\* Longest text of the four-character alphabet handed to apply_corrections.
MaxJargonLen == 3

\* Most corrections handed to apply_corrections.
MaxCorrections == 1

\* Most hypotheses handed to replay_hypotheses.
MaxHypotheses == 3

\* Most custom terms, and most custom corrections, of a JargonSettings.
MaxDictLen == 2

\* Calls of initiate_model_load in one run, and concurrent transcribe calls.
MaxLoadCalls == 2

MaxTranscribers == 2

\* ------------------------------------------------------- program constants

\* pipeline.rs:340 and :348 log the first 100 bytes of the text.
LogPreviewBytes == 100

\* pipeline.rs:416 and :418 log the first 80 bytes of both texts.
DiffPreviewBytes == 80

\* ------------------------------------------------------------------- text

Min(a, b) == IF a < b THEN a ELSE b

IsWhitespace(c) == c \in {" ", "n"}

\* char::len_utf8 of the characters of the model.
Utf8Len(c) == IF c \in {"Z", "S", "w"} THEN 3 ELSE 1

RECURSIVE ByteLen(_)
\* str::len: the length in bytes.
ByteLen(s) == IF s = <<>> THEN 0 ELSE Utf8Len(Head(s)) + ByteLen(Tail(s))

\* str::is_char_boundary(k): k is 0, the length, or the offset of a character.
IsCharBoundary(s, k) == \E i \in 0..Len(s) : ByteLen(SubSeq(s, 1, i)) = k

\* &s[..s.len().min(limit)]: slicing panics when the end is inside a character.
SlicePanics(s, limit) == ~IsCharBoundary(s, Min(ByteLen(s), limit))

RECURSIVE Concat(_)
\* [String]::join(""): the segments one after the other.
Concat(segs) == IF segs = <<>> THEN <<>> ELSE Head(segs) \o Concat(Tail(segs))

RECURSIVE TrimStart(_)
TrimStart(s) == IF s # <<>> /\ IsWhitespace(Head(s)) THEN TrimStart(Tail(s)) ELSE s

RECURSIVE TrimEnd(_)
TrimEnd(s) ==
  IF s # <<>> /\ IsWhitespace(s[Len(s)]) THEN TrimEnd(SubSeq(s, 1, Len(s) - 1)) ELSE s

\* str::trim
Trim(s) == TrimEnd(TrimStart(s))

RECURSIVE CollapseWhitespace(_)
\* split_whitespace().collect().join(" "): words separated by one space each.
CollapseWhitespace(s) ==
  LET t == TrimStart(s) IN
  IF t = <<>> THEN <<>>
  ELSE LET wordLen == CHOOSE k \in 1..Len(t) :
                        /\ \A i \in 1..k : ~IsWhitespace(t[i])
                        /\ (k = Len(t) \/ IsWhitespace(t[k + 1]))
           rest == CollapseWhitespace(SubSeq(t, wordLen + 1, Len(t)))
       IN SubSeq(t, 1, wordLen) \o (IF rest = <<>> THEN <<>> ELSE <<" ">> \o rest)

IsClosingPunct(c) == c \in {".", ",", ";", ":", "!", "?"}

RECURSIVE RemoveSpaceBeforePunct(_)
\* SPACE_BEFORE_PUNCT_RE.replace_all(s, "$1"): whitespace before , . ; : ! ? goes.
RemoveSpaceBeforePunct(s) ==
  IF s = <<>> THEN <<>>
  ELSE IF IsWhitespace(Head(s))
       THEN LET rest == TrimStart(s) IN
            IF rest # <<>> /\ IsClosingPunct(Head(rest))
            THEN RemoveSpaceBeforePunct(rest)
            ELSE <<Head(s)>> \o RemoveSpaceBeforePunct(Tail(s))
       ELSE <<Head(s)>> \o RemoveSpaceBeforePunct(Tail(s))

normalize_segment_text_for_post_process(text) ==
  RemoveSpaceBeforePunct(Trim(CollapseWhitespace(text)))

\* should_insert_boundary_space without the test for an opening bracket or quote.
ShouldInsertSpaceAfterBracket(left, right) ==
  IF left = <<>> \/ right = <<>> THEN FALSE
  ELSE LET left_last == left[Len(left)]
           right_first == right[1]
       IN /\ ~IsWhitespace(left_last)
          /\ ~IsWhitespace(right_first)
          /\ right_first \notin {".", ",", ";", ":", "!", "?", ")", "]", "}"}

should_insert_boundary_space(left, right) ==
  IF left = <<>> \/ right = <<>> THEN FALSE
  ELSE LET left_last == left[Len(left)]
           right_first == right[1]
       IN /\ ~IsWhitespace(left_last)
          /\ left_last \notin {"(", "[", "{", "\"", "'"}
          /\ ~IsWhitespace(right_first)
          /\ right_first \notin {".", ",", ";", ":", "!", "?", ")", "]", "}"}

\* ------------------------------------------------------------ compute_text_diff

\* Option<TextDiff>: None, or Some of {suffix_chars, delete_chars, insert}.
NoDiff == [is_some |-> FALSE, suffix_chars |-> 0, delete_chars |-> 0, insert |-> <<>>]

RECURSIVE CommonPrefixLen(_, _)
\* zip(...).take_while(|(a, b)| a == b).count()
CommonPrefixLen(a, b) ==
  IF a # <<>> /\ b # <<>> /\ Head(a) = Head(b)
  THEN 1 + CommonPrefixLen(Tail(a), Tail(b))
  ELSE 0

RECURSIVE CommonSuffixLen(_, _, _)
\* rev().zip(rev()).take(max_suffix).take_while(|(a, b)| a == b).count()
CommonSuffixLen(a, b, max_suffix) ==
  IF max_suffix > 0 /\ a # <<>> /\ b # <<>> /\ a[Len(a)] = b[Len(b)]
  THEN 1 + CommonSuffixLen(SubSeq(a, 1, Len(a) - 1), SubSeq(b, 1, Len(b) - 1),
                           max_suffix - 1)
  ELSE 0

\* compute_text_diff with the suffix scan not stopped at the common prefix.
ComputeTextDiffUncapped(original, processed) ==
  IF original = processed THEN NoDiff
  ELSE LET prefix_len == CommonPrefixLen(original, processed)
           max_suffix == Min(Len(original), Len(processed))
           suffix_len == CommonSuffixLen(original, processed, max_suffix)
       IN [is_some |-> TRUE,
           suffix_chars |-> suffix_len,
           delete_chars |-> Len(original) - prefix_len - suffix_len,
           insert |-> SubSeq(processed, prefix_len + 1, Len(processed) - suffix_len)]

\* compute_text_diff without the early return for identical texts.
ComputeTextDiffAlwaysSome(original, processed) ==
  LET prefix_len == CommonPrefixLen(original, processed)
      max_suffix == Min(Len(original), Len(processed)) - prefix_len
      suffix_len == CommonSuffixLen(original, processed, max_suffix)
  IN [is_some |-> TRUE,
      suffix_chars |-> suffix_len,
      delete_chars |-> Len(original) - prefix_len - suffix_len,
      insert |-> SubSeq(processed, prefix_len + 1, Len(processed) - suffix_len)]

\* compute_text_diff that looks for no common suffix.
ComputeTextDiffNoSuffix(original, processed) ==
  IF original = processed THEN NoDiff
  ELSE LET prefix_len == CommonPrefixLen(original, processed)
       IN [is_some |-> TRUE,
           suffix_chars |-> 0,
           delete_chars |-> Len(original) - prefix_len,
           insert |-> SubSeq(processed, prefix_len + 1, Len(processed))]

compute_text_diff(original, processed) ==
  IF original = processed THEN NoDiff
  ELSE LET prefix_len == CommonPrefixLen(original, processed)
           max_suffix == Min(Len(original), Len(processed)) - prefix_len
           suffix_len == CommonSuffixLen(original, processed, max_suffix)
       IN [is_some |-> TRUE,
           suffix_chars |-> suffix_len,
           delete_chars |-> Len(original) - prefix_len - suffix_len,
           insert |-> SubSeq(processed, prefix_len + 1, Len(processed) - suffix_len)]

\* ------------------------------------------------------ text transformations

RECURSIVE expand_at_refs(_)
\* at_file_expansion::expand_at_refs: every reference the workspace resolves is
\* rewritten to "@" followed by the absolute path of the file.
expand_at_refs(text) ==
  IF text = <<>> THEN <<>>
  ELSE (IF Head(text) = "@" THEN <<"@", "/">> ELSE <<Head(text)>>)
       \o expand_at_refs(Tail(text))

\* TranscriptionPipeline::expand_at_refs_for_output
expand_at_refs_for_output(settings, text) ==
  IF ~settings.at_file_expansion_enabled THEN text ELSE expand_at_refs(text)

\* Option<String>
NoText == [is_some |-> FALSE, text |-> <<>>]

SomeText(t) == [is_some |-> TRUE, text |-> t]

\* OpenCC::convert: Tw2sp turns traditional characters into simplified ones,
\* S2twp simplified ones into traditional ones.
OpenCCConvert(config, text) ==
  [i \in 1..Len(text) |->
     IF config = "Tw2sp" /\ text[i] = "Z" THEN "S"
     ELSE IF config = "S2twp" /\ text[i] = "S" THEN "Z"
     ELSE text[i]]

\* maybe_convert_chinese_variant; converter_ok is OpenCC::from_config succeeding.
maybe_convert_chinese_variant(settings, transcription, converter_ok) ==
  IF settings.selected_language \notin {"zh-Hans", "zh-Hant"} THEN NoText
  ELSE IF ~converter_ok THEN NoText
  ELSE SomeText(OpenCCConvert(IF settings.selected_language = "zh-Hans"
                              THEN "Tw2sp" ELSE "S2twp", transcription))

\* The four replace('\u{200B}'.., "") of post_process_transcription.
RemoveZeroWidth(text) == SelectSeq(text, LAMBDA c : c # "w")

\* strip_leaked_prompt_instructions on a text that holds none of the three
\* instruction blocks: the replace_all calls find nothing, trim() acts.
strip_leaked_prompt_instructions(text) == Trim(text)

\* ------------------------------------------------------------------ inputs

Alphabet == {"a", " ", "."}

\* Every text of at most n characters of the alphabet.
Texts(n) == UNION {[1..k -> Alphabet] : k \in 0..n}

\* n CJK characters: 3n bytes.
CjkText(n) == [i \in 1..n |-> "Z"]

\* The shortest all-CJK texts whose preview slices end inside a character.
LongTexts == {CjkText(DiffPreviewBytes \div 3 + 1), CjkText(LogPreviewBytes \div 3 + 1)}

\* What the speech engine may return for the remaining audio.
EngineTexts == Texts(MaxLen) \cup LongTexts \cup {<<"@">>}

\* Result<String>: what TranscriptionManager::transcribe returns.
TranscribeResults ==
  {[ok |-> FALSE, text |-> <<>>]} \cup {[ok |-> TRUE, text |-> t] : t \in EngineTexts}

\* Segments typed live before the run.
SegmentPool == {<<>>, <<"a">>, <<"a", " ">>}

SegmentLists == UNION {[1..k -> SegmentPool] : k \in 0..MaxSegments}

\* The content the rewrite service may answer with: blank, a lone zero-width
\* space, plain text, text to trim, an @file reference, long CJK text.
RewriteTexts ==
  {<<" ">>, <<"w">>, <<"a">>, <<"a", ".">>, <<" ", "a">>, <<"@">>} \cup LongTexts

\* The ways post_process_transcription ends: no provider, model or prompt is
\* configured ("skipped", no request is sent), the request fails ("err"), the
\* response has no content ("none"), or it has content ("some").
RewriteOutcomes ==
  {[kind |-> k, text |-> <<>>] : k \in {"skipped", "err", "none"}}
    \cup {[kind |-> "some", text |-> t] : t \in RewriteTexts}

SettingsChoices ==
  [append_trailing_space : BOOLEAN,
   auto_submit : BOOLEAN,
   paste_method : {"None", "CtrlV"},
   at_file_expansion_enabled : BOOLEAN,
   selected_language : {"en", "zh-Hans"}]

\* ------------------------------------------------------------------- state

VARIABLES
  state,            \* self.state: the live PipelineState variant and its data
  post_process,     \* self.post_process
  settings,         \* self.settings
  log_info,         \* whether the logger lets info! records through
  pc,               \* where run is: "loop", "returned", "panicked", "unreachable"
                    \* ("absent": no pipeline has been constructed)
  trail,            \* history: the variants self.state has been assigned, in order
  engine_result,    \* history: what transcribe returned to this run
  rewrite_result,   \* history: how the rewrite ended, and the text it was given
  dispatch_errors,  \* history: run_on_main_thread calls that returned Err
  mainq,            \* closures handed to run_on_main_thread, not yet run
  calls,            \* text-injection calls made so far, in order
  transcribe_calls, \* calls of TranscriptionManager::transcribe
  rewrite_calls,    \* requests sent to the rewrite service
  history,          \* save_transcription tasks spawned
  overlay,          \* the overlay shown: "transcribing", "processing", "hidden"
  tray,             \* the tray icon state
  active_toggles    \* active_toggles[binding_id]

\* TranscribeAction::stop and the recording it ends.
VARIABLES
  binding_id,       \* the binding the stop request is for
  recording_owner,  \* the binding that owns the active recording, or "none"
  stop_pc,          \* where stop is: "idle", "ignored", "spawned", "no_samples", "running"
  stop_log          \* history: the owner stop saw, and the owner its task saw

stop_vars == <<binding_id, recording_owner, stop_pc, stop_log>>

\* One call of compute_text_diff.
VARIABLES
  diff_original,    \* original
  diff_processed,   \* processed
  diff_result,      \* the Option<TextDiff> returned
  diff_pc           \* "idle", "called", "returned"

diff_vars == <<diff_original, diff_processed, diff_result, diff_pc>>

\* DomainSelectorManager and the selection call in progress on it.
VARIABLES
  last_selection,        \* self.last_selection
  last_prompt_selection, \* self.last_prompt_selection
  sel_pc,                \* "idle", "waiting" (in recv_timeout), "returned"
  sel_call,              \* history: the arguments and the course of the current call
  sel_result,            \* what the call returned
  sel_effective,         \* what the caller goes on with
  sel_count,             \* calls made so far
  workers                \* scoring threads spawned, and those left behind by a timeout

selector_vars == <<last_selection, last_prompt_selection, sel_pc, sel_call, sel_result,
                   sel_effective, sel_count, workers>>

\* jargon::apply_corrections, called on its own
VARIABLES
  jar_text,              \* the text handed to apply_corrections
  jar_corrections,       \* the corrections handed to it
  jar_spans,             \* history: the spans mask_protected_spans found
  jar_masked,            \* history: the masked text after the corrections
  jar_result,            \* the String it returned
  jar_pc                 \* "idle", "returned"

jargon_vars == <<jar_text, jar_corrections, jar_spans, jar_masked, jar_result, jar_pc>>

\* rolling_harness::replay_hypotheses, called on its own
VARIABLES
  hypotheses,            \* the hypotheses handed to replay_hypotheses
  strategy,              \* the RewriteStrategy handed to it
  buffer,                \* the virtual target buffer
  rewrites_applied,
  last_emitted,
  replay_next,           \* index of the hypothesis the for loop takes next
  report,                \* the ReplayReport returned
  replay_pc              \* "idle", "loop", "returned"

rolling_vars == <<hypotheses, strategy, buffer, rewrites_applied, last_emitted,
                  replay_next, report, replay_pc>>

\* jargon::compute_active_dictionary, called on its own
VARIABLES
  jargon_settings,       \* the JargonSettings handed to compute_active_dictionary
  dict,                  \* the ActiveDictionary it returned
  dict_pc                \* "idle", "returned"

dict_vars == <<jargon_settings, dict, dict_pc>>

\* a second stop request for the same binding
VARIABLES
  dup_pc                 \* "idle", "ignored", "spawned", "running", "no_samples"

dup_vars == <<dup_pc>>

\* clipboard::apply_text_diff on the key-simulation path: the text before the
\* raw text in the target field, the raw and the final text, the paste method,
\* the key event that fails (0: none), the target field, the key events sent,
\* the result and the position of the call.
VARIABLES
  edit_before, edit_a, edit_b, edit_method, edit_fail, editor, key_events,
  edit_result, edit_pc

edit_vars == <<edit_before, edit_a, edit_b, edit_method, edit_fail, editor,
               key_events, edit_result, edit_pc>>

\* The rebuilding of the raw text in transcribe_and_paste (post-process mode):
\* the segments typed live, the remaining chunk, the raw text and the position.
VARIABLES
  bnd_segments, bnd_remaining, bnd_raw, bnd_pc

boundary_vars == <<bnd_segments, bnd_remaining, bnd_raw, bnd_pc>>

\* TranscriptionManager: the is_loading flag and the owner of its mutex, the
\* engine slot, the calls of initiate_model_load, the load thread, and the
\* transcribe calls (position, result, and whether the engine was checked
\* while a load thread was running).
VARIABLES
  is_loading, is_loading_lock, engine, initiate_pc, initiate_count, load_pc,
  tr_pc, tr_result, tr_checked_in_flight

load_vars == <<is_loading, is_loading_lock, engine, initiate_pc, initiate_count,
               load_pc, tr_pc, tr_result, tr_checked_in_flight>>

\* Two selection calls in flight on one DomainSelectorManager: the memory
\* they share and its value before them, their arguments, and for each call
\* its scoring, its position, the memory it read and what it returned.
VARIABLES
  conc_memory, conc_initial, conc_args, conc_scoring, conc_pc, conc_read,
  conc_result

conc_vars == <<conc_memory, conc_initial, conc_args, conc_scoring, conc_pc,
               conc_read, conc_result>>

aux_vars == <<stop_vars, diff_vars, selector_vars, jargon_vars,
             rolling_vars,
             dict_vars,
             dup_vars,
             edit_vars,
             boundary_vars,
             load_vars,
             conc_vars>>

vars == <<state, post_process, settings, log_info, pc, trail, engine_result,
          rewrite_result, dispatch_errors, mainq, calls, transcribe_calls,
          rewrite_calls, history, overlay, tray, active_toggles, aux_vars>>

\* The action names of ACTION_MAP that transcribe; a binding carries the name of
\* its action.
Bindings == {"transcribe", "transcribe_with_post_process"}

NoStopLog == [at_request |-> "unseen", at_task |-> "unseen"]

\* A pipeline that was handed its recording directly: no stop request is modelled.
StopIdle ==
  /\ binding_id = "transcribe"
  /\ recording_owner = "none"
  /\ stop_pc = "running"
  /\ stop_log = NoStopLog

\* compute_text_diff is not being called.
DiffIdle ==
  /\ diff_original = <<>>
  /\ diff_processed = <<>>
  /\ diff_result = NoDiff
  /\ diff_pc = "idle"

\* Option<LastSelection>
NoSelection == [is_some |-> FALSE, profile_id |-> "", score |-> 0]

\* Option<Vec<String>> (a prompt selection is a list of one id)
NoIds == [is_some |-> FALSE, ids |-> <<>>]

NoCall ==
  [kind |-> "none", outcome |-> "none", context |-> <<>>,
   scoring |-> [i \in {} |-> 0],
   before |-> <<NoSelection, NoSelection>>, spawned_before |-> 0,
   domain_selector_enabled |-> FALSE, post_process_auto_prompt_selection |-> FALSE,
   domain_selector_top_k |-> 0, domain_selector_min_score |-> 0,
   domain_selector_hysteresis |-> 0, domain_selector_blend_manual_profiles |-> FALSE,
   jargon_enabled_profiles |-> <<>>, post_process_selected_prompt_id |-> NoIds,
   prompts_empty |-> FALSE]

\* DomainSelectorManager::new, with no call made.
SelectorIdle ==
  /\ last_selection = NoSelection
  /\ last_prompt_selection = NoSelection
  /\ sel_pc = "idle"
  /\ sel_call = NoCall
  /\ sel_result = NoIds
  /\ sel_effective = <<>>
  /\ sel_count = 0
  /\ workers = [spawned |-> 0, abandoned |-> 0]

\* apply_corrections is not being called.
JargonIdle ==
  /\ jar_text = <<>>
  /\ jar_corrections = <<>>
  /\ jar_spans = <<>>
  /\ jar_masked = <<>>
  /\ jar_result = <<>>
  /\ jar_pc = "idle"

\* enum RewriteStrategy; remaining is 0 where the variant has no field.
Perfect == [kind |-> "Perfect", remaining |-> 0]

UnderDeletePerRewrite(remaining) ==
  [kind |-> "UnderDeletePerRewrite", remaining |-> remaining]

NoReport ==
  [hypotheses_count |-> 0, final_expected |-> <<>>, final_actual |-> <<>>,
   rewrites_applied |-> 0, matches_expected |-> FALSE]

\* replay_hypotheses is not being called.
RollingIdle ==
  /\ hypotheses = <<>>
  /\ strategy = Perfect
  /\ buffer = <<>>
  /\ rewrites_applied = 0
  /\ last_emitted = <<>>
  /\ replay_next = 0
  /\ report = NoReport
  /\ replay_pc = "idle"

\* struct JargonSettings
JargonSettings(enabled_profiles, custom_terms, custom_corrections) ==
  [enabled_profiles |-> enabled_profiles, custom_terms |-> custom_terms,
   custom_corrections |-> custom_corrections]

\* struct ActiveDictionary
ActiveDictionary(terms, corrections) == [terms |-> terms, corrections |-> corrections]

\* compute_active_dictionary is not being called.
DictIdle ==
  /\ jargon_settings = JargonSettings(<<>>, <<>>, <<>>)
  /\ dict = ActiveDictionary(<<>>, <<>>)
  /\ dict_pc = "idle"

\* No second stop request has been made.
DupIdle == dup_pc = "idle"

EditIdle ==
  /\ edit_before = <<>>
  /\ edit_a = <<>>
  /\ edit_b = <<>>
  /\ edit_method = "None"
  /\ edit_fail = 0
  /\ editor = [text |-> <<>>, cursor |-> 0]
  /\ key_events = <<>>
  /\ edit_result = "none"
  /\ edit_pc = "idle"

BoundaryIdle ==
  /\ bnd_segments = <<>>
  /\ bnd_remaining = <<>>
  /\ bnd_raw = <<>>
  /\ bnd_pc = "idle"

LoadIdle ==
  /\ is_loading = FALSE
  /\ is_loading_lock = <<"free", 0>>
  /\ engine = FALSE
  /\ initiate_pc = "idle"
  /\ initiate_count = 0
  /\ load_pc = "idle"
  /\ tr_pc = <<>>
  /\ tr_result = <<>>
  /\ tr_checked_in_flight = <<>>

ConcIdle ==
  /\ conc_memory = NoSelection
  /\ conc_initial = NoSelection
  /\ conc_args = NoCall
  /\ conc_scoring = <<>>
  /\ conc_pc = <<>>
  /\ conc_read = <<>>
  /\ conc_result = <<>>

AuxIdle == StopIdle /\ DiffIdle /\ SelectorIdle /\ JargonIdle /\ RollingIdle /\ DictIdle /\ DupIdle /\ EditIdle /\ BoundaryIdle /\ LoadIdle /\ ConcIdle

\* The tags of the variants self.state has held.
visited == [i \in DOMAIN trail |-> trail[i].tag]

NoEngineResult == [returned |-> FALSE, ok |-> FALSE, text |-> <<>>]

NoRewriteResult ==
  [returned |-> FALSE, kind |-> "skipped", text |-> <<>>, pre_rewrite |-> <<>>]

Stopped(samples, pasted_segments) ==
  [tag |-> "Stopped", samples |-> samples, pasted_segments |-> pasted_segments]

RawTextVisible(raw_text, had_segments, raw_text_pasted) ==
  [tag |-> "RawTextVisible", raw_text |-> raw_text, had_segments |-> had_segments,
   raw_text_pasted |-> raw_text_pasted]

PostProcessed(raw_text, final_text, raw_text_pasted) ==
  [tag |-> "PostProcessed", raw_text |-> raw_text, final_text |-> final_text,
   raw_text_pasted |-> raw_text_pasted]

Done == [tag |-> "Done"]

\* TranscriptionPipeline::new, called by TranscribeAction::stop after it has set
\* the tray to Transcribing and shown the transcribing overlay.
Init ==
  /\ \E segs \in SegmentLists :
       /\ state = Stopped("audio", segs)
       /\ trail = <<Stopped("audio", segs)>>
  /\ post_process \in BOOLEAN
  /\ settings \in SettingsChoices
  /\ log_info \in BOOLEAN
  /\ pc = "loop"
  /\ engine_result = NoEngineResult
  /\ rewrite_result = NoRewriteResult
  /\ dispatch_errors = 0
  /\ mainq = <<>>
  /\ calls = <<>>
  /\ transcribe_calls = 0
  /\ rewrite_calls = 0
  /\ history = <<>>
  /\ overlay = "transcribing"
  /\ tray = "Transcribing"
  /\ active_toggles = TRUE
  /\ AuxIdle

\* --------------------------------------------------- text-injection service

\* One call of the text-injection service: op is "paste", "paste_raw" or
\* "apply_text_diff"; site is the call site ("final": the run's text,
\* "trailing": the trailing space); "policy" marks one run of
\* apply_trailing_space_and_autosubmit and "auto_submit_key" one submit key sent.
Call(op, site, text, diff, ok) ==
  [op |-> op, site |-> site, text |-> text, suffix_chars |-> diff.suffix_chars,
   delete_chars |-> diff.delete_chars, ok |-> ok]

should_send_auto_submit(auto_submit, paste_method) ==
  auto_submit /\ paste_method # "None"

\* clipboard::paste(text): the text (with the trailing space the settings ask
\* for) is injected, then the submit key is sent; a failed injection returns
\* before the key.
paste(text, ok) ==
  <<Call("paste", "final", text, NoDiff, ok)>>
    \o (IF ok /\ should_send_auto_submit(settings.auto_submit, settings.paste_method)
        THEN <<Call("auto_submit_key", "paste", <<>>, NoDiff, TRUE)>>
        ELSE <<>>)

\* clipboard::paste_raw(text): no trailing space, no submit key.
paste_raw(site, text, ok) == <<Call("paste_raw", site, text, NoDiff, ok)>>

\* clipboard::apply_text_diff(suffix_chars, delete_chars, insert)
apply_text_diff(diff, ok) == <<Call("apply_text_diff", "final", diff.insert, diff, ok)>>

apply_trailing_space_and_autosubmit(space_ok) ==
  <<Call("policy", "trailing", <<>>, NoDiff, TRUE)>>
    \o (IF settings.append_trailing_space
        THEN paste_raw("trailing", <<" ">>, space_ok)
        ELSE <<>>)
    \o (IF settings.auto_submit /\ settings.paste_method # "None"
        THEN <<Call("auto_submit_key", "trailing", <<>>, NoDiff, TRUE)>>
        ELSE <<>>)

\* A closure handed to run_on_main_thread.
Closure(kind, text, diff) == [kind |-> kind, text |-> text, diff |-> diff]

\* The closure the main thread runs: its calls, then the overlay and the tray.
MainThreadRun ==
  /\ mainq # <<>>
  /\ LET c == Head(mainq) IN
     \E ok \in BOOLEAN, space_ok \in BOOLEAN :
       /\ calls' = calls \o
            (CASE c.kind = "paste_and_hide" -> paste(c.text, ok)
               [] c.kind = "paste_remaining" -> paste(c.text, ok)
               [] c.kind = "paste_final" ->
                    (IF c.text # <<>> THEN paste_raw("final", c.text, ok) ELSE <<>>)
                      \o apply_trailing_space_and_autosubmit(space_ok)
               [] c.kind = "apply_diff" ->
                    apply_text_diff(c.diff, ok)
                      \o apply_trailing_space_and_autosubmit(space_ok)
               [] c.kind = "finalize" -> apply_trailing_space_and_autosubmit(space_ok))
       /\ IF c.kind = "paste_remaining"
          THEN UNCHANGED <<overlay, tray>>
          ELSE overlay' = "hidden" /\ tray' = "Idle"
  /\ mainq' = Tail(mainq)
  /\ UNCHANGED <<state, post_process, settings, log_info, pc, trail, engine_result,
                 rewrite_result, dispatch_errors, transcribe_calls, rewrite_calls,
                 history, active_toggles, aux_vars>>

\* ------------------------------------------------------------- transitions

\* The unreachable!() arm of a transition entered in another variant.
Unreachable ==
  /\ pc' = "unreachable"
  /\ state' = Done
  /\ UNCHANGED <<post_process, settings, log_info, trail, engine_result,
                 rewrite_result, dispatch_errors, mainq, calls, transcribe_calls,
                 rewrite_calls, history, overlay, tray, active_toggles>>

\* A panic inside a transition, after std::mem::replace has left Done behind.
Panic ==
  /\ pc' = "panicked"
  /\ state' = Done
  /\ UNCHANGED <<post_process, settings, log_info, trail, engine_result,
                 dispatch_errors, mainq, calls, transcribe_calls, history, overlay,
                 tray, active_toggles>>

\* self.state = next, at the end of one turn of run's loop.
Advance(next) ==
  /\ state' = next
  /\ trail' = Append(trail, next)
  /\ pc' = "loop"

\* reconstruct_transcription with a space put between segments and remainder.
ReconstructSpaced(pasted_segments, remaining_transcription) ==
  IF pasted_segments = <<>> THEN remaining_transcription
  ELSE Concat(pasted_segments) \o <<" ">> \o remaining_transcription

\* The transcript of the whole recording: the segments, then the remaining chunk.
reconstruct_transcription(pasted_segments, remaining_transcription) ==
  IF pasted_segments = <<>> THEN remaining_transcription
  ELSE IF remaining_transcription = <<>> THEN Concat(pasted_segments)
  ELSE Concat(pasted_segments) \o remaining_transcription

\* The raw text of post-process mode: the remaining chunk normalized and joined
\* to the segments, with a space at the boundary where one is needed.
raw_text_for_post_process(pasted_segments, remaining_transcription) ==
  LET had_segments == pasted_segments # <<>>
      cleaned_remaining ==
        IF had_segments /\ remaining_transcription # <<>>
        THEN normalize_segment_text_for_post_process(remaining_transcription)
        ELSE remaining_transcription
      joined == Concat(pasted_segments)
  IN IF had_segments
     THEN IF cleaned_remaining = <<>> THEN joined
          ELSE IF should_insert_boundary_space(joined, cleaned_remaining)
               THEN joined \o <<" ">> \o cleaned_remaining
               ELSE joined \o cleaned_remaining
     ELSE reconstruct_transcription(pasted_segments, remaining_transcription)

\* plain_closures pasting the whole transcript whether or not segments were typed.
PlainClosuresWhole(pasted_segments, remaining_transcription) ==
  <<Closure("paste_and_hide",
            expand_at_refs_for_output(settings,
              Concat(pasted_segments) \o remaining_transcription),
            NoDiff)>>

\* What transcribe_and_paste hands to the main thread when post-processing is
\* off: the whole transcript when no segment was typed live, else the remaining
\* chunk if there is one.
plain_closures(pasted_segments, remaining_transcription) ==
  IF pasted_segments = <<>>
  THEN <<Closure("paste_and_hide",
                 expand_at_refs_for_output(settings,
                   reconstruct_transcription(pasted_segments, remaining_transcription)),
                 NoDiff)>>
  ELSE IF remaining_transcription # <<>>
       THEN <<Closure("paste_remaining",
                      expand_at_refs_for_output(settings, remaining_transcription),
                      NoDiff)>>
       ELSE <<>>

\* AbortRun going round the loop again with the recording still in hand.
AbortRunRetry ==
  /\ state' = state
  /\ pc' = "loop"
  /\ UNCHANGED <<trail, dispatch_errors, mainq, calls, rewrite_calls, history,
                 active_toggles, overlay, tray>>

\* Err(err) from transcribe_and_paste: run logs it, calls cleanup and returns.
AbortRun ==
  /\ state' = Done
  /\ pc' = "returned"
  /\ overlay' = "hidden"
  /\ tray' = "Idle"
  /\ UNCHANGED <<trail, dispatch_errors, mainq, calls, rewrite_calls, history,
                 active_toggles>>

\* Stopped -> RawTextVisible | Done
transcribe_and_paste(res, dispatched) ==
  IF state.tag # "Stopped" THEN Unreachable
  ELSE
    /\ transcribe_calls' = transcribe_calls + 1
    /\ engine_result' = [returned |-> TRUE, ok |-> res.ok, text |-> res.text]
    /\ UNCHANGED <<post_process, settings, log_info, rewrite_result>>
    /\ IF ~res.ok THEN AbortRun
       ELSE
         LET pasted_segments == state.pasted_segments
             remaining_transcription == res.text
             transcription ==
               reconstruct_transcription(pasted_segments, remaining_transcription)
         IN
         IF transcription = <<>>
         THEN /\ Advance(Done)
              /\ UNCHANGED <<dispatch_errors, mainq, calls, rewrite_calls, history,
                             overlay, tray, active_toggles>>
         ELSE IF post_process
         THEN LET raw_text ==
                    raw_text_for_post_process(pasted_segments, remaining_transcription)
              IN /\ overlay' = "processing"
                 /\ Advance(RawTextVisible(raw_text, pasted_segments # <<>>, FALSE))
                 /\ UNCHANGED <<dispatch_errors, mainq, calls, rewrite_calls,
                                history, tray, active_toggles>>
         ELSE LET closures == plain_closures(pasted_segments, remaining_transcription)
              IN /\ mainq' = (IF dispatched THEN mainq \o closures ELSE mainq)
                 /\ dispatch_errors' = (IF closures # <<>> /\ ~dispatched
                                        THEN dispatch_errors + 1
                                        ELSE dispatch_errors)
                 /\ IF pasted_segments = <<>> /\ dispatched
                    THEN UNCHANGED <<overlay, tray>>
                    ELSE overlay' = "hidden" /\ tray' = "Idle"
                 /\ Advance(Done)
                 /\ UNCHANGED <<calls, rewrite_calls, history, active_toggles>>

\* post_process_transcription with a provider that is reached through
\* llm_client: Some(text) when the rewrite service answers with content, else
\* None. (The Apple Intelligence branch, compiled on macOS/aarch64 only, returns
\* None or Some of a sanitized non-blank text: results this branch gives too.)
post_process_transcription(outcome) ==
  IF outcome.kind # "some" THEN NoText
  ELSE SomeText(strip_leaked_prompt_instructions(RemoveZeroWidth(outcome.text)))

\* RawTextVisible -> PostProcessed
post_process_text(outcome, converter_ok) ==
  IF state.tag # "RawTextVisible" THEN Unreachable
  ELSE
    LET raw_text == state.raw_text
        converted == maybe_convert_chinese_variant(settings, raw_text, converter_ok)
        pre_rewrite == IF converted.is_some THEN converted.text ELSE raw_text
        processed == post_process_transcription(outcome)
        final_text == IF processed.is_some THEN processed.text ELSE pre_rewrite
        post_processed_text ==
          IF processed.is_some THEN SomeText(processed.text)
          ELSE IF pre_rewrite # raw_text THEN SomeText(pre_rewrite)
          ELSE NoText
    IN
    IF log_info /\ SlicePanics(pre_rewrite, LogPreviewBytes)
    THEN Panic /\ UNCHANGED <<rewrite_calls, rewrite_result>>
    ELSE
      /\ rewrite_calls' = IF outcome.kind = "skipped" THEN rewrite_calls
                          ELSE rewrite_calls + 1
      /\ rewrite_result' = [returned |-> TRUE, kind |-> outcome.kind,
                            text |-> outcome.text, pre_rewrite |-> pre_rewrite]
      /\ IF log_info /\ processed.is_some /\ SlicePanics(processed.text, LogPreviewBytes)
         THEN Panic
         ELSE /\ history' = Append(history,
                              [transcription |-> raw_text,
                               post_processed_text |-> post_processed_text])
              /\ Advance(PostProcessed(raw_text,
                                       expand_at_refs_for_output(settings, final_text),
                                       state.raw_text_pasted))
              /\ UNCHANGED <<post_process, settings, log_info, engine_result,
                             dispatch_errors, mainq, calls, transcribe_calls, overlay,
                             tray, active_toggles>>

\* final_closures handing the paste of the final text over twice.
FinalClosuresTwice(raw_text, final_text, raw_text_pasted) ==
  <<Closure("paste_final", final_text, NoDiff), Closure("paste_final", final_text, NoDiff)>>

\* final_closures pasting the raw text where the final text belongs.
FinalClosuresRaw(raw_text, final_text, raw_text_pasted) ==
  <<Closure("paste_final", raw_text, NoDiff)>>

\* What apply_diff_and_finalize hands to the main thread: the final text when the
\* raw text was not pasted, else the diff from the raw text, if there is one.
final_closures(raw_text, final_text, raw_text_pasted) ==
  IF ~raw_text_pasted THEN <<Closure("paste_final", final_text, NoDiff)>>
  ELSE LET diff == compute_text_diff(raw_text, final_text)
       IN IF diff.is_some THEN <<Closure("apply_diff", <<>>, diff)>>
          ELSE <<Closure("finalize", <<>>, NoDiff)>>

\* PostProcessed -> Done
apply_diff_and_finalize(dispatched) ==
  IF state.tag # "PostProcessed" THEN Unreachable
  ELSE
    IF log_info /\ (\/ SlicePanics(state.raw_text, DiffPreviewBytes)
                    \/ SlicePanics(state.final_text, DiffPreviewBytes))
    THEN Panic /\ UNCHANGED <<rewrite_calls, rewrite_result>>
    ELSE
      /\ mainq' = (IF dispatched
                   THEN mainq \o final_closures(state.raw_text, state.final_text,
                                                state.raw_text_pasted)
                   ELSE mainq)
      /\ dispatch_errors' = (IF dispatched THEN dispatch_errors
                             ELSE dispatch_errors + 1)
      /\ IF dispatched THEN UNCHANGED <<overlay, tray>>
         ELSE overlay' = "hidden" /\ tray' = "Idle"
      /\ Advance(Done)
      /\ UNCHANGED <<post_process, settings, log_info, engine_result, rewrite_result,
                     calls, transcribe_calls, rewrite_calls, history, active_toggles>>

\* TranscriptionPipeline::finalize
finalize ==
  /\ overlay' = "hidden"
  /\ tray' = "Idle"
  /\ Advance(Done)
  /\ UNCHANGED <<post_process, settings, log_info, engine_result, rewrite_result,
                 dispatch_errors, mainq, calls, transcribe_calls, rewrite_calls,
                 history, active_toggles>>

\* --------------------------------------------------------------------- run

\* Arm with the PostProcessed arm calling the transition of RawTextVisible.
ArmSkewed(tag, pp) ==
  CASE tag = "Stopped" -> "transcribe_and_paste"
    [] tag = "RawTextVisible" -> (IF pp THEN "post_process_text" ELSE "finalize")
    [] tag = "PostProcessed" -> "post_process_text"
    [] tag = "Done" -> "break"

\* The arm of run's match that a variant selects.
Arm(tag, pp) ==
  CASE tag = "Stopped" -> "transcribe_and_paste"
    [] tag = "RawTextVisible" -> (IF pp THEN "post_process_text" ELSE "finalize")
    [] tag = "PostProcessed" -> "apply_diff_and_finalize"
    [] tag = "Done" -> "break"

ArmStopped ==
  /\ pc = "loop"
  /\ Arm(state.tag, post_process) = "transcribe_and_paste"
  /\ \E res \in TranscribeResults, dispatched \in BOOLEAN :
       transcribe_and_paste(res, dispatched)
  /\ UNCHANGED aux_vars

ArmRawTextVisible ==
  /\ pc = "loop"
  /\ Arm(state.tag, post_process) \in {"post_process_text", "finalize"}
  /\ IF Arm(state.tag, post_process) = "finalize" THEN finalize
     ELSE \E outcome \in RewriteOutcomes, converter_ok \in BOOLEAN :
            post_process_text(outcome, converter_ok)
  /\ UNCHANGED aux_vars

ArmPostProcessed ==
  /\ pc = "loop"
  /\ Arm(state.tag, post_process) = "apply_diff_and_finalize"
  /\ \E dispatched \in BOOLEAN : apply_diff_and_finalize(dispatched)
  /\ UNCHANGED aux_vars

\* PipelineState::Done => break, then the binding's toggle state is cleared.
ArmDone ==
  /\ pc = "loop"
  /\ Arm(state.tag, post_process) = "break"
  /\ pc' = "returned"
  /\ active_toggles' = FALSE
  /\ UNCHANGED <<state, post_process, settings, log_info, trail, engine_result,
                 rewrite_result, dispatch_errors, mainq, calls, transcribe_calls,
                 rewrite_calls, history, overlay, tray, aux_vars>>

Next == ArmStopped \/ ArmRawTextVisible \/ ArmPostProcessed \/ ArmDone \/ MainThreadRun

Spec == Init /\ [][Next]_vars

TypeOK ==
  /\ state.tag \in {"Stopped", "RawTextVisible", "PostProcessed", "Done"}
  /\ pc \in {"loop", "returned", "panicked", "unreachable"}
  /\ Len(mainq) <= 1

\* ------------------------------------------------------ TranscribeAction::stop

\* AudioRecordingManager::is_recording_for_binding
is_recording_for_binding(binding) == recording_owner = binding

\* AudioRecordingManager::stop_recording: Some(samples) when the binding owns the
\* active recording, which it ends; None otherwise.
stop_recording(binding) ==
  [is_some |-> recording_owner = binding, samples |-> "audio"]

\* No pipeline exists; a recording may be under way, for this binding or another.
StopInit ==
  /\ ConcIdle
  /\ LoadIdle
  /\ BoundaryIdle
  /\ EditIdle
  /\ DupIdle
  /\ DictIdle
  /\ RollingIdle
  /\ binding_id \in Bindings
  /\ recording_owner \in Bindings \cup {"none"}
  /\ stop_pc = "idle"
  /\ stop_log = NoStopLog
  /\ DiffIdle
  /\ SelectorIdle
  /\ JargonIdle
  /\ post_process = (binding_id = "transcribe_with_post_process")
  /\ settings \in SettingsChoices
  /\ log_info \in BOOLEAN
  /\ active_toggles \in BOOLEAN
  /\ overlay = (IF recording_owner = "none" THEN "hidden" ELSE "recording")
  /\ tray = (IF recording_owner = "none" THEN "Idle" ELSE "Recording")
  /\ state = Done
  /\ trail = <<>>
  /\ pc = "absent"
  /\ engine_result = NoEngineResult
  /\ rewrite_result = NoRewriteResult
  /\ dispatch_errors = 0
  /\ mainq = <<>>
  /\ calls = <<>>
  /\ transcribe_calls = 0
  /\ rewrite_calls = 0
  /\ history = <<>>

\* TranscribeAction::stop up to the spawn of its task.
stop ==
  /\ stop_pc = "idle"
  /\ stop_log' = [stop_log EXCEPT !.at_request = recording_owner]
  /\ IF ~is_recording_for_binding(binding_id)
     THEN /\ active_toggles' = FALSE
          /\ stop_pc' = "ignored"
          /\ UNCHANGED <<overlay, tray>>
     ELSE /\ tray' = "Transcribing"
          /\ overlay' = "transcribing"
          /\ stop_pc' = "spawned"
          /\ UNCHANGED active_toggles
  /\ UNCHANGED <<state, post_process, settings, log_info, pc, trail, engine_result,
                 rewrite_result, dispatch_errors, mainq, calls, transcribe_calls,
                 rewrite_calls, history, binding_id, recording_owner, diff_vars, selector_vars,
                 jargon_vars, rolling_vars, dict_vars, dup_vars, edit_vars,
                 boundary_vars, load_vars, conc_vars>>

\* The recording is cancelled (utils::cancel_current_operation) while stop or
\* its task has not taken the samples yet.
CancelRecording ==
  /\ recording_owner # "none"
  /\ stop_pc \in {"idle", "spawned"}
  /\ recording_owner' = "none"
  /\ UNCHANGED <<state, post_process, settings, log_info, pc, trail, engine_result,
                 rewrite_result, dispatch_errors, mainq, calls, transcribe_calls,
                 rewrite_calls, history, overlay, tray, active_toggles, binding_id,
                 stop_pc, stop_log, diff_vars, selector_vars,
                 jargon_vars, rolling_vars, dict_vars, dup_vars, edit_vars,
                 boundary_vars, load_vars, conc_vars>>

\* StopTask constructing the pipeline whether or not stop_recording gave samples.
StopTaskAlways ==
  /\ stop_pc = "spawned"
  /\ stop_log' = [stop_log EXCEPT !.at_task = recording_owner]
  /\ recording_owner' = "none"
  /\ state' = Stopped("audio", <<>>)
  /\ trail' = <<Stopped("audio", <<>>)>>
  /\ pc' = "loop"
  /\ stop_pc' = "running"
  /\ UNCHANGED <<post_process, settings, log_info, engine_result, rewrite_result,
                 dispatch_errors, mainq, calls, transcribe_calls, rewrite_calls,
                 history, overlay, tray, active_toggles, binding_id, diff_vars, selector_vars,
                 jargon_vars, rolling_vars, dict_vars, dup_vars, edit_vars,
                 boundary_vars, load_vars, conc_vars>>

\* The task stop spawns: it takes the samples and constructs the pipeline, with
\* no pre-pasted segments, which run then drives; without samples it resets the
\* overlay, the tray and the binding's flag.
StopTask ==
  /\ stop_pc = "spawned"
  /\ stop_log' = [stop_log EXCEPT !.at_task = recording_owner]
  /\ LET taken == stop_recording(binding_id) IN
     IF taken.is_some
     THEN /\ recording_owner' = "none"
          /\ state' = Stopped(taken.samples, <<>>)
          /\ trail' = <<Stopped(taken.samples, <<>>)>>
          /\ pc' = "loop"
          /\ stop_pc' = "running"
          /\ UNCHANGED <<overlay, tray, active_toggles>>
     ELSE /\ overlay' = "hidden"
          /\ tray' = "Idle"
          /\ active_toggles' = FALSE
          /\ stop_pc' = "no_samples"
          /\ UNCHANGED <<recording_owner, state, trail, pc>>
  /\ UNCHANGED <<post_process, settings, log_info, engine_result, rewrite_result,
                 dispatch_errors, mainq, calls, transcribe_calls, rewrite_calls,
                 history, binding_id, diff_vars, selector_vars,
                 jargon_vars, rolling_vars, dict_vars, dup_vars, edit_vars,
                 boundary_vars, load_vars, conc_vars>>

StopNext == stop \/ CancelRecording \/ StopTask \/ Next

StopSpec == StopInit /\ [][StopNext]_vars

\* ------------------------------------------------- a duplicate stop request

\* TranscribeAction::stop called again for the same binding, after the first
\* call has returned, up to the spawn of its task.
DuplicateStop ==
  /\ stop_pc # "idle"
  /\ dup_pc = "idle"
  /\ IF ~is_recording_for_binding(binding_id)
     THEN /\ active_toggles' = FALSE
          /\ dup_pc' = "ignored"
          /\ UNCHANGED <<overlay, tray>>
     ELSE /\ tray' = "Transcribing"
          /\ overlay' = "transcribing"
          /\ dup_pc' = "spawned"
          /\ UNCHANGED active_toggles
  /\ UNCHANGED <<state, post_process, settings, log_info, pc, trail, engine_result,
                 rewrite_result, dispatch_errors, mainq, calls, transcribe_calls,
                 rewrite_calls, history, stop_vars, diff_vars, selector_vars,
                 jargon_vars, rolling_vars, dict_vars, edit_vars, boundary_vars,
                 load_vars, conc_vars>>

\* The task the second call spawned.
DuplicateStopTask ==
  /\ dup_pc = "spawned"
  /\ LET taken == stop_recording(binding_id) IN
     IF taken.is_some
     THEN /\ recording_owner' = "none"
          /\ state' = Stopped(taken.samples, <<>>)
          /\ trail' = <<Stopped(taken.samples, <<>>)>>
          /\ pc' = "loop"
          /\ dup_pc' = "running"
          /\ UNCHANGED <<overlay, tray, active_toggles>>
     ELSE /\ overlay' = "hidden"
          /\ tray' = "Idle"
          /\ active_toggles' = FALSE
          /\ dup_pc' = "no_samples"
          /\ UNCHANGED <<recording_owner, state, trail, pc>>
  /\ UNCHANGED <<post_process, settings, log_info, engine_result, rewrite_result,
                 dispatch_errors, mainq, calls, transcribe_calls, rewrite_calls,
                 history, binding_id, stop_pc, stop_log, diff_vars, selector_vars,
                 jargon_vars, rolling_vars, dict_vars, edit_vars, boundary_vars,
                 load_vars, conc_vars>>

StopRaceNext == StopNext \/ DuplicateStop \/ DuplicateStopTask

StopRaceSpec == StopInit /\ [][StopRaceNext]_vars

\* ---------------------------------------------------- compute_text_diff calls

\* No pipeline exists and no stop request is under way.
PipelineAbsent ==
  /\ state = Done
  /\ trail = <<>>
  /\ pc = "absent"
  /\ post_process = FALSE
  /\ settings = [append_trailing_space |-> FALSE, auto_submit |-> FALSE,
                 paste_method |-> "CtrlV", at_file_expansion_enabled |-> FALSE,
                 selected_language |-> "en"]
  /\ log_info = FALSE
  /\ engine_result = NoEngineResult
  /\ rewrite_result = NoRewriteResult
  /\ dispatch_errors = 0
  /\ mainq = <<>>
  /\ calls = <<>>
  /\ transcribe_calls = 0
  /\ rewrite_calls = 0
  /\ history = <<>>
  /\ overlay = "hidden"
  /\ tray = "Idle"
  /\ active_toggles = FALSE

pipeline_vars == <<state, post_process, settings, log_info, pc, trail, engine_result,
                   rewrite_result, dispatch_errors, mainq, calls, transcribe_calls,
                   rewrite_calls, history, overlay, tray, active_toggles>>

\* The texts of test_diff_common_suffix.
BadWorld == <<"b", "a", "d", " ", "w", "o", "r", "l", "d">>

GoodWorld == <<"g", "o", "o", "d", " ", "w", "o", "r", "l", "d">>

\* Arguments of compute_text_diff: every text of at most MaxDiffLen letters "a"
\* and "b", and the two texts of the test.
DiffTexts ==
  UNION {[1..k -> {"a", "b"}] : k \in 0..MaxDiffLen} \cup {BadWorld, GoodWorld}

DiffInit ==
  /\ ConcIdle
  /\ LoadIdle
  /\ BoundaryIdle
  /\ EditIdle
  /\ DupIdle
  /\ DictIdle
  /\ RollingIdle
  /\ diff_original \in DiffTexts
  /\ diff_processed \in DiffTexts
  /\ diff_result = NoDiff
  /\ diff_pc = "called"
  /\ PipelineAbsent
  /\ StopIdle
  /\ SelectorIdle
  /\ JargonIdle

\* compute_text_diff(original, processed) returns.
ComputeTextDiff ==
  /\ diff_pc = "called"
  /\ diff_result' = compute_text_diff(diff_original, diff_processed)
  /\ diff_pc' = "returned"
  /\ UNCHANGED <<diff_original, diff_processed, pipeline_vars, stop_vars,
                 selector_vars,
                 jargon_vars, rolling_vars, dict_vars, dup_vars, edit_vars,
                 boundary_vars, load_vars, conc_vars>>

DiffNext == ComputeTextDiff

DiffSpec == DiffInit /\ [][DiffNext]_vars

\* ---------------------------------------------------- DomainSelectorManager

\* Scores are in hundredths: 30 is the f32 0.30.
ScoreLevels == {0, 30, 33, 38}

\* The ids of the candidates (profiles, or prompts), in ascending order.
IdOrder == <<"A", "B">>

SelectorIds == {IdOrder[k] : k \in DOMAIN IdOrder}

IdRank(id) == CHOOSE k \in DOMAIN IdOrder : IdOrder[k] = id

\* The normalized score of every candidate against the context text.
Scorings == [SelectorIds -> ScoreLevels]

Max(a, b) == IF a > b THEN a ELSE b

\* f32::clamp
Clamp(x, lo, hi) == Max(lo, Min(x, hi))

\* Iterator::take
Take(seq, n) == SubSeq(seq, 1, Min(n, Len(seq)))

RankedProfile(profile_id, score) == [profile_id |-> profile_id, score |-> score]

RECURSIVE SortRanked(_, _)
\* ranked.sort_by: score descending, then profile_id ascending.
SortRanked(ids, scoring) ==
  IF ids = {} THEN <<>>
  ELSE LET first == CHOOSE i \in ids : \A j \in ids :
                      \/ scoring[i] > scoring[j]
                      \/ scoring[i] = scoring[j] /\ IdRank(i) <= IdRank(j)
       IN <<RankedProfile(first, scoring[first])>>
            \o SortRanked(ids \ {first}, scoring)

\* score_profiles / score_prompts: the candidates with a positive normalized
\* score, sorted.
score_profiles(scoring) == SortRanked({i \in SelectorIds : scoring[i] > 0}, scoring)

\* hysteresis_hold with the margin left out of the comparison.
HysteresisHoldNoMargin(current_top, last, hysteresis) ==
  LET switched == current_top.profile_id # last.profile_id
      beat_by_margin == current_top.score >= last.score
  IN switched /\ ~beat_by_margin

\* hysteresis_hold without the comparison of the scores.
HysteresisHoldWheneverSwitched(current_top, last, hysteresis) ==
  current_top.profile_id # last.profile_id

\* switched && !beat_by_margin
hysteresis_hold(current_top, last, hysteresis) ==
  LET switched == current_top.profile_id # last.profile_id
      beat_by_margin == current_top.score >= last.score + hysteresis
  IN switched /\ ~beat_by_margin

\* returns_before_spawn without the test of the context text.
ReturnsBeforeSpawnEnabledOnly(call) ==
  IF call.kind = "profiles"
  THEN ~call.domain_selector_enabled
  ELSE ~call.post_process_auto_prompt_selection \/ call.prompts_empty

\* The early returns of both selection functions: disabled by setting, blank
\* context text, or (prompts) no prompt to choose from.
returns_before_spawn(call) ==
  IF call.kind = "profiles"
  THEN ~call.domain_selector_enabled \/ Trim(call.context) = <<>>
  ELSE \/ ~call.post_process_auto_prompt_selection
       \/ Trim(call.context) = <<>>
       \/ call.prompts_empty

\* The outcome of a selection and the memory it leaves.
Selection(result, memory) == [result |-> result, memory |-> memory]

\* select_profiles_after_recv dropping the memory when nothing reaches the floor.
SelectProfilesForgetful(call, ranked, last) ==
  LET top_k == Max(call.domain_selector_top_k, 1)
      min_score == Clamp(call.domain_selector_min_score, 0, 100)
      hysteresis == Clamp(call.domain_selector_hysteresis, 0, 100)
      selected == Take(SelectSeq(ranked, LAMBDA item : item.score >= min_score), top_k)
  IN IF selected = <<>> THEN Selection(NoIds, NoSelection)
     ELSE LET held == last.is_some /\ hysteresis_hold(selected[1], last, hysteresis)
              final == IF held
                       THEN Take(<<RankedProfile(last.profile_id, last.score)>>
                                   \o selected, top_k)
                       ELSE selected
          IN Selection([is_some |-> TRUE,
                        ids |-> [k \in DOMAIN final |-> final[k].profile_id]],
                       [is_some |-> TRUE, profile_id |-> final[1].profile_id,
                        score |-> final[1].score])

\* select_profiles_after_recv without selected.truncate(top_k) after the insert.
SelectProfilesNoTruncate(call, ranked, last) ==
  LET top_k == Max(call.domain_selector_top_k, 1)
      min_score == Clamp(call.domain_selector_min_score, 0, 100)
      hysteresis == Clamp(call.domain_selector_hysteresis, 0, 100)
      selected == Take(SelectSeq(ranked, LAMBDA item : item.score >= min_score), top_k)
  IN IF selected = <<>> THEN Selection(NoIds, last)
     ELSE LET held == last.is_some /\ hysteresis_hold(selected[1], last, hysteresis)
              final == IF held
                       THEN <<RankedProfile(last.profile_id, last.score)>> \o selected
                       ELSE selected
          IN Selection([is_some |-> TRUE,
                        ids |-> [k \in DOMAIN final |-> final[k].profile_id]],
                       [is_some |-> TRUE, profile_id |-> final[1].profile_id,
                        score |-> final[1].score])

\* select_profiles_with_timeout once recv_timeout has returned the ranking.
select_profiles_after_recv(call, ranked, last) ==
  LET top_k == Max(call.domain_selector_top_k, 1)
      min_score == Clamp(call.domain_selector_min_score, 0, 100)
      hysteresis == Clamp(call.domain_selector_hysteresis, 0, 100)
      selected == Take(SelectSeq(ranked, LAMBDA item : item.score >= min_score), top_k)
  IN IF selected = <<>> THEN Selection(NoIds, last)
     ELSE LET held == last.is_some /\ hysteresis_hold(selected[1], last, hysteresis)
              final == IF held
                       THEN Take(<<RankedProfile(last.profile_id, last.score)>>
                                   \o selected, top_k)
                       ELSE selected
          IN Selection([is_some |-> TRUE,
                        ids |-> [k \in DOMAIN final |-> final[k].profile_id]],
                       [is_some |-> TRUE, profile_id |-> final[1].profile_id,
                        score |-> final[1].score])

\* select_post_process_prompt_with_timeout once recv_timeout has returned.
select_prompt_after_recv(call, ranked, last) ==
  LET min_score == Clamp(call.domain_selector_min_score, 0, 100)
      hysteresis == Clamp(call.domain_selector_hysteresis, 0, 100)
  IN IF ranked = <<>> \/ ranked[1].score < min_score THEN Selection(NoIds, last)
     ELSE LET held == last.is_some /\ hysteresis_hold(ranked[1], last, hysteresis)
              final == IF held
                       THEN <<RankedProfile(last.profile_id, last.score)>> \o ranked
                       ELSE ranked
          IN Selection([is_some |-> TRUE, ids |-> <<final[1].profile_id>>],
                       [is_some |-> TRUE, profile_id |-> final[1].profile_id,
                        score |-> final[1].score])

RECURSIVE Blend(_, _)
\* The auto profiles pushed onto the manual ones, those already there left out.
Blend(profile_ids, auto_profiles) ==
  IF auto_profiles = <<>> THEN profile_ids
  ELSE Blend(IF \E k \in DOMAIN profile_ids : profile_ids[k] = Head(auto_profiles)
             THEN profile_ids
             ELSE Append(profile_ids, Head(auto_profiles)),
             Tail(auto_profiles))

\* effective_profiles_for_text giving up the manual profiles when nothing is selected.
EffectiveProfilesAutoOnly(call, auto_profiles) == auto_profiles.ids

\* effective_profiles_for_text (TranscriptionManager::effective_profile_ids is
\* the same code).
effective_profiles_for_text(call, auto_profiles) ==
  IF ~auto_profiles.is_some THEN call.jargon_enabled_profiles
  ELSE IF call.domain_selector_blend_manual_profiles
       THEN Blend(call.jargon_enabled_profiles, auto_profiles.ids)
       ELSE auto_profiles.ids

\* select_post_process_prompt_id: the selection, or else the selected prompt id.
select_post_process_prompt_id(call, selection) ==
  LET fallback == call.post_process_selected_prompt_id
  IN IF ~call.post_process_auto_prompt_selection THEN fallback.ids
     ELSE IF selection.is_some THEN selection.ids
     ELSE fallback.ids

\* What the caller of the selection goes on with.
CallerProceeds(call, selection) ==
  IF call.kind = "profiles" THEN effective_profiles_for_text(call, selection)
  ELSE select_post_process_prompt_id(call, selection)

ContextTexts == {<<>>, <<" ">>, <<"a">>}

\* The arguments of a call of select_profiles_with_timeout.
ProfileCalls ==
  {[NoCall EXCEPT !.kind = "profiles", !.context = c,
                  !.domain_selector_enabled = e, !.domain_selector_top_k = k,
                  !.domain_selector_min_score = m, !.domain_selector_hysteresis = h,
                  !.domain_selector_blend_manual_profiles = b,
                  !.jargon_enabled_profiles = j] :
     c \in ContextTexts, e \in BOOLEAN, k \in {0, 3}, m \in {5, 35}, h \in {0, 8},
     b \in BOOLEAN, j \in {<<>>, <<"A">>}}

\* The arguments of a call of select_post_process_prompt_with_timeout.
PromptCalls ==
  {[NoCall EXCEPT !.kind = "prompt", !.context = c,
                  !.post_process_auto_prompt_selection = e,
                  !.domain_selector_min_score = m, !.domain_selector_hysteresis = h,
                  !.post_process_selected_prompt_id = f, !.prompts_empty = pe] :
     c \in ContextTexts, e \in BOOLEAN, m \in {5, 35}, h \in {0, 8},
     f \in {NoIds, [is_some |-> TRUE, ids |-> <<"B">>]}, pe \in BOOLEAN}

SelectorInit ==
  /\ ConcIdle
  /\ LoadIdle
  /\ BoundaryIdle
  /\ EditIdle
  /\ DupIdle
  /\ DictIdle
  /\ RollingIdle
  /\ SelectorIdle
  /\ PipelineAbsent
  /\ StopIdle
  /\ DiffIdle
  /\ JargonIdle

\* A selection call up to its early return or to recv_timeout.
SelectBegin ==
  /\ sel_pc \in {"idle", "returned"}
  /\ sel_count < MaxCalls
  /\ sel_count' = sel_count + 1
  /\ \E args \in ProfileCalls \cup PromptCalls :
       LET call == [args EXCEPT !.before = <<last_selection, last_prompt_selection>>,
                                !.spawned_before = workers.spawned]
       IN IF returns_before_spawn(call)
          THEN /\ sel_call' = [call EXCEPT !.outcome = "immediate"]
               /\ sel_result' = NoIds
               /\ sel_effective' = CallerProceeds(call, NoIds)
               /\ sel_pc' = "returned"
               /\ UNCHANGED workers
          ELSE /\ sel_call' = [call EXCEPT !.outcome = "waiting"]
               /\ workers' = [workers EXCEPT !.spawned = @ + 1]
               /\ sel_pc' = "waiting"
               /\ UNCHANGED <<sel_result, sel_effective>>
  /\ UNCHANGED <<last_selection, last_prompt_selection, pipeline_vars, stop_vars,
                 diff_vars,
                 jargon_vars, rolling_vars, dict_vars, dup_vars, edit_vars,
                 boundary_vars, load_vars, conc_vars>>

\* recv_timeout returns the worker's ranking and the call runs to its return.
RecvRanked ==
  /\ sel_pc = "waiting"
  /\ \E scoring \in Scorings :
       LET ranked == score_profiles(scoring)
           done == IF sel_call.kind = "profiles"
                   THEN select_profiles_after_recv(sel_call, ranked, last_selection)
                   ELSE select_prompt_after_recv(sel_call, ranked, last_prompt_selection)
       IN /\ sel_call' = [sel_call EXCEPT !.outcome = "delivered", !.scoring = scoring]
          /\ sel_result' = done.result
          /\ sel_effective' = CallerProceeds(sel_call, done.result)
          /\ IF sel_call.kind = "profiles"
             THEN last_selection' = done.memory /\ UNCHANGED last_prompt_selection
             ELSE last_prompt_selection' = done.memory /\ UNCHANGED last_selection
  /\ sel_pc' = "returned"
  /\ UNCHANGED <<sel_count, workers, pipeline_vars, stop_vars, diff_vars,
                 jargon_vars, rolling_vars, dict_vars, dup_vars, edit_vars,
                 boundary_vars, load_vars, conc_vars>>

\* recv_timeout returns Err: the call returns None and leaves its worker behind.
RecvTimedOut ==
  /\ sel_pc = "waiting"
  /\ sel_call' = [sel_call EXCEPT !.outcome = "timeout"]
  /\ sel_result' = NoIds
  /\ sel_effective' = CallerProceeds(sel_call, NoIds)
  /\ workers' = [workers EXCEPT !.abandoned = @ + 1]
  /\ sel_pc' = "returned"
  /\ UNCHANGED <<last_selection, last_prompt_selection, sel_count, pipeline_vars,
                 stop_vars, diff_vars,
                 jargon_vars, rolling_vars, dict_vars, dup_vars, edit_vars,
                 boundary_vars, load_vars, conc_vars>>

\* WorkerSendsLate with the late ranking stored as the profile selection.
WorkerSendsLateIntoMemory ==
  /\ workers.abandoned > 0
  /\ workers' = [workers EXCEPT !.abandoned = @ - 1]
  /\ \E scoring \in Scorings :
       LET ranked == score_profiles(scoring)
       IN last_selection' = IF ranked = <<>> THEN last_selection
                            ELSE [is_some |-> TRUE, profile_id |-> ranked[1].profile_id,
                                  score |-> ranked[1].score]
  /\ UNCHANGED <<last_prompt_selection, sel_pc, sel_call, sel_result,
                 sel_effective, sel_count, pipeline_vars, stop_vars, diff_vars,
                 jargon_vars, rolling_vars, dict_vars, dup_vars, edit_vars,
                 boundary_vars, load_vars, conc_vars>>

\* A worker left behind finishes: its send finds the receiver gone.
WorkerSendsLate ==
  /\ workers.abandoned > 0
  /\ workers' = [workers EXCEPT !.abandoned = @ - 1]
  /\ UNCHANGED <<last_selection, last_prompt_selection, sel_pc, sel_call, sel_result,
                 sel_effective, sel_count, pipeline_vars, stop_vars, diff_vars,
                 jargon_vars, rolling_vars, dict_vars, dup_vars, edit_vars,
                 boundary_vars, load_vars, conc_vars>>

SelectorNext == SelectBegin \/ RecvRanked \/ RecvTimedOut \/ WorkerSendsLate

SelectorSpec == SelectorInit /\ [][SelectorNext]_vars

\* The scoring thread is an OS thread of its own: once spawned it runs to its
\* send whatever its caller does.
SelectorFairSpec == SelectorSpec /\ WF_vars(WorkerSendsLate)

\* ------------------------------------------------------------- jargon.rs

\* In the texts of apply_corrections a character stands for itself: "s" and "S"
\* are the ASCII letter in its two cases, "@" "/" "-" and the backtick are the
\* characters that open a protected span. The backtick and the brackets of a
\* placeholder are written by their code points.
Backtick == "U+0060"

LeftBracket == "U+27E6"

RightBracket == "U+27E7"

DecimalDigits == <<"0", "1", "2", "3", "4", "5", "6", "7", "8", "9">>

\* \w of the characters of the model
WordChars ==
  {"a", "b", "g", "h", "o", "p", "r", "s", "t", "A", "S", "T", "X", "Z", "_"} \cup
  {DecimalDigits[k] : k \in DOMAIN DecimalDigits}

JargonChars ==
  WordChars \cup {" ", "n", "@", Backtick, "-", ".", "/", ":", "=", "~", "*",
                  LeftBracket, RightBracket}

\* [\w\-./]
AtClass == WordChars \cup {"-", ".", "/"}

\* [\w\-]
FlagNameClass == WordChars \cup {"-"}

\* [\w\-.*]
PathTailClass == WordChars \cup {"-", ".", "*"}

\* [^U+0060]
NotBacktick == JargonChars \ {Backtick}

\* [^\s]
NotSpace == {c \in JargonChars : ~IsWhitespace(c)}

\* (?i): the simple case folding of the letters of the model
CaseFold(c) ==
  CASE c = "A" -> "a" [] c = "S" -> "s" [] c = "T" -> "t" [] c = "X" -> "x" [] OTHER -> c

\* The length of the longest run of characters of class that starts at text[i]:
\* what a greedy class+ or class* consumes there.
Run(text, i, class) ==
  IF i > Len(text) THEN 0
  ELSE CHOOSE n \in 0..(Len(text) - i + 1) :
         /\ \A k \in i..(i + n - 1) : text[k] \in class
         /\ (i + n > Len(text) \/ text[i + n] \notin class)

StartsWith(text, i, lit) ==
  /\ i + Len(lit) - 1 <= Len(text)
  /\ SubSeq(text, i, i + Len(lit) - 1) = lit

\* str::contains of a non-empty pattern
Contains(text, pat) ==
  \E i \in 1..(Len(text) - Len(pat) + 1) : SubSeq(text, i, i + Len(pat) - 1) = pat

\* @[\w\-./]+ at text[i]: the length of the match, 0 for none.
AtTokenLen(text, i) ==
  LET r == Run(text, i + 1, AtClass)
  IN IF text[i] = "@" /\ r >= 1 THEN 1 + r ELSE 0

\* U+0060 [^U+0060]+ U+0060
BacktickLen(text, i) ==
  LET r == Run(text, i + 1, NotBacktick)
  IN IF text[i] = Backtick /\ r >= 1 /\ i + 1 + r <= Len(text) THEN r + 2 ELSE 0

\* https?://[^\s]+
UrlLen(text, i) ==
  LET scheme == IF StartsWith(text, i, <<"h", "t", "t", "p", "s", ":", "/", "/">>) THEN 8
                ELSE IF StartsWith(text, i, <<"h", "t", "t", "p", ":", "/", "/">>) THEN 7
                ELSE 0
      r == Run(text, i + scheme, NotSpace)
  IN IF scheme > 0 /\ r >= 1 THEN scheme + r ELSE 0

RECURSIVE PathGroupsLen(_, _)
\* (?:/[\w\-.*]+)* at text[j]
PathGroupsLen(text, j) ==
  LET r == Run(text, j + 1, PathTailClass)
  IN IF j <= Len(text) /\ text[j] = "/" /\ r >= 1
     THEN 1 + r + PathGroupsLen(text, j + 1 + r)
     ELSE 0

\* (?:~/|/[\w\-]+(?:/[\w\-.*]+)+)
PathLen(text, i) ==
  IF StartsWith(text, i, <<"~", "/">>) THEN 2
  ELSE LET r == Run(text, i + 1, FlagNameClass)
           g == PathGroupsLen(text, i + 1 + r)
       IN IF text[i] = "/" /\ r >= 1 /\ g > 0 THEN 1 + r + g ELSE 0

\* --?[\w\-]+=?(?:[\w\-./]+)? at text[j]: a hyphen, a greedy run of the name
\* class (the second hyphen is of that class too), "=" if it follows, and a run
\* of the value class.
FlagBodyLen(text, j) ==
  LET r == Run(text, j + 1, FlagNameClass)
      k == j + 1 + r
      eq == IF k <= Len(text) /\ text[k] = "=" THEN 1 ELSE 0
  IN IF j <= Len(text) /\ text[j] = "-" /\ r >= 1
     THEN 1 + r + eq + Run(text, k + eq, AtClass)
     ELSE 0

\* (?:^|\s)--?[\w\-]+=?(?:[\w\-./]+)?: the whitespace before a flag is part of
\* the match.
FlagLen(text, i) ==
  IF i = 1 /\ FlagBodyLen(text, 1) > 0 THEN FlagBodyLen(text, 1)
  ELSE IF IsWhitespace(text[i]) /\ FlagBodyLen(text, i + 1) > 0
       THEN 1 + FlagBodyLen(text, i + 1)
       ELSE 0

\* patterns.join("|"): the first alternative that matches at text[i] wins.
ProtectedMatchLen(text, i) ==
  IF AtTokenLen(text, i) > 0 THEN AtTokenLen(text, i)
  ELSE IF BacktickLen(text, i) > 0 THEN BacktickLen(text, i)
  ELSE IF UrlLen(text, i) > 0 THEN UrlLen(text, i)
  ELSE IF PathLen(text, i) > 0 THEN PathLen(text, i)
  ELSE FlagLen(text, i)

RECURSIVE find_iter(_, _)
\* re.find_iter(text): the leftmost matches, none overlapping another.
find_iter(text, i) ==
  IF i > Len(text) THEN <<>>
  ELSE LET n == ProtectedMatchLen(text, i)
       IN IF n > 0
          THEN <<[start |-> i, len |-> n]>> \o find_iter(text, i + n)
          ELSE find_iter(text, i + 1)

RECURSIVE Decimal(_)
\* format!("{}", idx)
Decimal(idx) ==
  IF idx < 10 THEN <<DecimalDigits[idx + 1]>>
  ELSE Decimal(idx \div 10) \o <<DecimalDigits[(idx % 10) + 1]>>

\* format!("\u{27E6}S{}\u{27E7}", idx)
Placeholder(idx) == <<LeftBracket, "S">> \o Decimal(idx) \o <<RightBracket>>

RECURSIVE ReplaceRanges(_, _, _, _)
\* masked.replace_range(m.start()..m.end(), &placeholder) for every match
ReplaceRanges(text, matches, pos, k) ==
  IF k > Len(matches) THEN SubSeq(text, pos, Len(text))
  ELSE SubSeq(text, pos, matches[k].start - 1) \o Placeholder(k - 1)
         \o ReplaceRanges(text, matches, matches[k].start + matches[k].len, k + 1)

mask_protected_spans(text) ==
  LET matches == find_iter(text, 1)
  IN [masked |-> ReplaceRanges(text, matches, 1, 1),
      spans |-> [k \in 1..Len(matches) |->
                   [placeholder |-> Placeholder(k - 1),
                    original |-> SubSeq(text, matches[k].start,
                                        matches[k].start + matches[k].len - 1)]]]

RECURSIVE ReplaceLiteral(_, _, _, _)
\* str::replace(pat, rep) from text[i] on
ReplaceLiteral(text, i, pat, rep) ==
  IF i > Len(text) THEN <<>>
  ELSE IF StartsWith(text, i, pat)
       THEN rep \o ReplaceLiteral(text, i + Len(pat), pat, rep)
       ELSE <<text[i]>> \o ReplaceLiteral(text, i + 1, pat, rep)

RECURSIVE restore_from(_, _, _)
restore_from(text, spans, k) ==
  IF k > Len(spans) THEN text
  ELSE restore_from(ReplaceLiteral(text, 1, spans[k].placeholder, spans[k].original),
                    spans, k + 1)

restore_protected_spans(text, spans) == restore_from(text, spans, 1)

\* \b between text[p] and text[p + 1]
WordBoundary(text, p) ==
  (p >= 1 /\ text[p] \in WordChars) # (p + 1 <= Len(text) /\ text[p + 1] \in WordChars)

\* (?i)<from> without the two \b
CorrectionMatchesAnywhere(text, i, from) ==
  /\ i + Len(from) - 1 <= Len(text)
  /\ \A k \in DOMAIN from : CaseFold(text[i + k - 1]) = CaseFold(from[k])

\* (?i)\b<from>\b matches at text[i]
CorrectionMatchesAt(text, i, from) ==
  /\ i + Len(from) - 1 <= Len(text)
  /\ \A k \in DOMAIN from : CaseFold(text[i + k - 1]) = CaseFold(from[k])
  /\ WordBoundary(text, i - 1)
  /\ WordBoundary(text, i + Len(from) - 1)

RECURSIVE replace_all(_, _, _, _)
\* re.replace_all(&masked, correction.to.as_str()) for a non-empty from and a
\* replacement without "$"
replace_all(text, i, from, to) ==
  IF i > Len(text) THEN <<>>
  ELSE IF CorrectionMatchesAt(text, i, from)
       THEN to \o replace_all(text, i + Len(from), from, to)
       ELSE <<text[i]>> \o replace_all(text, i + 1, from, to)

RECURSIVE correct_masked(_, _, _)
\* for correction in corrections { masked = re.replace_all(...) }
correct_masked(masked, corrections, k) ==
  IF k > Len(corrections) THEN masked
  ELSE correct_masked(replace_all(masked, 1, corrections[k].from, corrections[k].to),
                      corrections, k + 1)

apply_corrections(text, corrections) ==
  IF corrections = <<>> \/ text = <<>> THEN text
  ELSE LET m == mask_protected_spans(text)
           masked == correct_masked(m.masked, corrections, 1)
           restored == restore_protected_spans(masked, m.spans)
       IN IF \E k \in DOMAIN m.spans : Contains(restored, m.spans[k].placeholder)
          THEN text
          ELSE restored

\* One text for each kind of protected span, each followed by a word.
SpanTexts ==
  {<<"@", "a", ".", "r", "s", " ", "s", "0">>,
   <<Backtick, "s", " ", "0", Backtick, " ", "s">>,
   <<"h", "t", "t", "p", ":", "/", "/", "a", ".", "b", " ", "s">>,
   <<"/", "a", "/", "b", ".", "r", "s", " ", "s">>,
   <<"~", "/", " ", "s">>,
   <<"s", " ", "-", "-", "a", "=", "b", " ", "s">>,
   <<"@", "a", " ", Backtick, "s", Backtick, " ", "-", "b", " ", "s">>}

\* The characters of the texts enumerated exhaustively.
ShortChars == {"@", "s", "0", " "}

RECURSIVE TextsUpTo(_)
TextsUpTo(n) ==
  IF n = 0 THEN {<<>>}
  ELSE LET shorter == TextsUpTo(n - 1)
       IN shorter \cup {Append(t, c) : t \in shorter, c \in ShortChars}

\* A phrase next to a word that is part of it, after test_multi_word_boundary_safety.
WordTexts ==
  {<<"s", " ", "0", " ", "s">>,
   <<"S", " ", "0", " ", "s", "0">>}

JargonTexts == SpanTexts \cup WordTexts \cup TextsUpTo(MaxJargonLen)

\* JargonCorrection {from, to}
JargonCorrection(from, to) == [from |-> from, to |-> to]

JargonCorrections ==
  {JargonCorrection(<<"s">>, <<"X">>),
   JargonCorrection(<<"0">>, <<"1">>),
   JargonCorrection(<<"s", " ", "0">>, <<"s", "0">>),
   JargonCorrection(<<"s", "0">>, <<"X">>),
   JargonCorrection(<<"a">>, <<>>)}

RECURSIVE CorrectionLists(_)
CorrectionLists(n) ==
  IF n = 0 THEN {<<>>}
  ELSE LET shorter == CorrectionLists(n - 1)
       IN shorter \cup {Append(l, c) : l \in shorter, c \in JargonCorrections}

JargonInit ==
  /\ ConcIdle
  /\ LoadIdle
  /\ BoundaryIdle
  /\ EditIdle
  /\ DupIdle
  /\ DictIdle
  /\ RollingIdle
  /\ JargonIdle
  /\ PipelineAbsent
  /\ StopIdle
  /\ DiffIdle
  /\ SelectorIdle

\* One call of apply_corrections.
ApplyCorrections ==
  /\ jar_pc = "idle"
  /\ \E text \in JargonTexts, corrections \in CorrectionLists(MaxCorrections) :
       LET m == mask_protected_spans(text)
           ran == corrections # <<>> /\ text # <<>>
       IN /\ jar_text' = text
          /\ jar_corrections' = corrections
          /\ jar_spans' = IF ran THEN m.spans ELSE <<>>
          /\ jar_masked' = IF ran THEN correct_masked(m.masked, corrections, 1) ELSE <<>>
          /\ jar_result' = apply_corrections(text, corrections)
  /\ jar_pc' = "returned"
  /\ UNCHANGED <<pipeline_vars, stop_vars, diff_vars, selector_vars, rolling_vars,
                 dict_vars, dup_vars, edit_vars, boundary_vars, load_vars, conc_vars>>

JargonNext == ApplyCorrections

JargonSpec == JargonInit /\ [][JargonNext]_vars

\* ------------------------------------------------------ rolling_harness.rs

\* The texts a hypothesis is drawn from.
HypothesisTexts == {<<>>, <<"a">>, <<"b", "a">>}

RECURSIVE HypothesisLists(_)
HypothesisLists(n) ==
  IF n = 0 THEN {<<>>}
  ELSE LET shorter == HypothesisLists(n - 1)
       IN shorter \cup {Append(l, h) : l \in shorter, h \in HypothesisTexts}

Strategies == {Perfect, UnderDeletePerRewrite(0), UnderDeletePerRewrite(1)}

\* A rewrite that leaves what was written in place and writes after it.
RewriteAfterAll(how, previous, hypothesis) == previous \o hypothesis

\* match strategy { .. }: the buffer after one rewrite.
rewrite(how, previous, hypothesis) ==
  IF how.kind = "Perfect" THEN hypothesis
  ELSE Take(previous, how.remaining) \o hypothesis

RollingInit ==
  /\ ConcIdle
  /\ LoadIdle
  /\ BoundaryIdle
  /\ EditIdle
  /\ DupIdle
  /\ DictIdle
  /\ RollingIdle
  /\ PipelineAbsent
  /\ StopIdle
  /\ DiffIdle
  /\ SelectorIdle
  /\ JargonIdle

\* replay_hypotheses up to its for loop.
ReplayBegin ==
  /\ replay_pc = "idle"
  /\ hypotheses' \in HypothesisLists(MaxHypotheses)
  /\ strategy' \in Strategies
  /\ buffer' = <<>>
  /\ rewrites_applied' = 0
  /\ last_emitted' = <<>>
  /\ replay_next' = 1
  /\ replay_pc' = "loop"
  /\ UNCHANGED <<report, pipeline_vars, stop_vars, diff_vars, selector_vars, jargon_vars,
                 dict_vars, dup_vars, edit_vars, boundary_vars, load_vars, conc_vars>>

\* One iteration of the for loop.
ReplayStep ==
  /\ replay_pc = "loop"
  /\ replay_next <= Len(hypotheses)
  /\ LET hypothesis == hypotheses[replay_next]
     IN IF last_emitted = <<>>
        THEN /\ buffer' = buffer \o hypothesis
             /\ UNCHANGED rewrites_applied
        ELSE /\ rewrites_applied' = rewrites_applied + 1
             /\ buffer' = rewrite(strategy, last_emitted, hypothesis)
  /\ last_emitted' = hypotheses[replay_next]
  /\ replay_next' = replay_next + 1
  /\ UNCHANGED <<hypotheses, strategy, report, replay_pc, pipeline_vars, stop_vars,
                 diff_vars, selector_vars, jargon_vars, dict_vars, dup_vars, edit_vars,
                 boundary_vars, load_vars, conc_vars>>

\* The ReplayReport built after the loop.
ReplayReturn ==
  /\ replay_pc = "loop"
  /\ replay_next > Len(hypotheses)
  /\ LET final_expected == IF hypotheses = <<>> THEN <<>>
                           ELSE hypotheses[Len(hypotheses)]
     IN report' = [hypotheses_count |-> Len(hypotheses),
                   final_expected |-> final_expected,
                   final_actual |-> buffer,
                   rewrites_applied |-> rewrites_applied,
                   matches_expected |-> (buffer = final_expected)]
  /\ replay_pc' = "returned"
  /\ UNCHANGED <<hypotheses, strategy, buffer, rewrites_applied, last_emitted,
                 replay_next, pipeline_vars, stop_vars, diff_vars, selector_vars,
                 jargon_vars, dict_vars, dup_vars, edit_vars, boundary_vars, load_vars,
                 conc_vars>>

RollingNext == ReplayBegin \/ ReplayStep \/ ReplayReturn

RollingSpec == RollingInit /\ [][RollingNext]_vars

\* ------------------------------------------- jargon::compute_active_dictionary

\* A term or a from is a text of the letters "A" "T" "a" "b" "g" "o" "s" "t",
\* the digit "2", the space, and "Z", a CJK character of three bytes.
\* The characters in the order of their code points, the order of String::cmp.
CodePointOrder == <<" ", "2", "A", "T", "a", "b", "g", "o", "s", "t", "Z">>

CodePointRank(c) == CHOOSE k \in DOMAIN CodePointOrder : CodePointOrder[k] = c

RECURSIVE StrLess(_, _)
\* a.cmp(b) == Ordering::Less
StrLess(a, b) ==
  IF b = <<>> THEN FALSE
  ELSE IF a = <<>> THEN TRUE
  ELSE IF Head(a) = Head(b) THEN StrLess(Tail(a), Tail(b))
  ELSE CodePointRank(Head(a)) < CodePointRank(Head(b))

\* str::to_lowercase
to_lowercase(t) == [k \in DOMAIN t |-> CaseFold(t[k])]

\* The profile ids in the order of String::cmp.
ProfileIdOrder == <<"devops", "gone", "web_dev">>

ProfileIdRank(id) == CHOOSE k \in DOMAIN ProfileIdOrder : ProfileIdOrder[k] = id

\* struct JargonProfile
JargonProfile(terms, corrections) == [terms |-> terms, corrections |-> corrections]

\* builtin_profiles: two profiles that share a term key and a correction key.
BuiltinProfiles ==
  [id \in {"devops", "web_dev"} |->
     IF id = "devops"
     THEN JargonProfile(<<<<"t", "a">>, <<"g", "o">>>>,
                        <<JargonCorrection(<<"a", " ", "b">>, <<"b">>)>>)
     ELSE JargonProfile(<<<<"T", "a">>, <<"s", "t">>>>,
                        <<JargonCorrection(<<"a", " ", "b", " ", "2">>, <<"a", "b", "2">>), JargonCorrection(<<"A", " ", "b">>, <<"g">>)>>)]

RECURSIVE SortedIds(_)
\* profile_ids.sort()
SortedIds(ids) ==
  IF ids = <<>> THEN <<>>
  ELSE LET least == CHOOSE k \in DOMAIN ids :
                      \A j \in DOMAIN ids : ProfileIdRank(ids[k]) <= ProfileIdRank(ids[j])
       IN <<ids[least]>> \o
          SortedIds(SubSeq(ids, 1, least - 1) \o SubSeq(ids, least + 1, Len(ids)))

\* enabled_profiles.iter().filter(|id| profiles.contains_key(id)).collect(), sorted
profile_ids(jsettings, profiles) ==
  SortedIds(SelectSeq(jsettings.enabled_profiles, LAMBDA id : id \in DOMAIN profiles))

RECURSIVE ProfileTerms(_, _)
\* The terms of the profiles of ids, one profile after the other.
ProfileTerms(ids, profiles) ==
  IF ids = <<>> THEN <<>>
  ELSE profiles[Head(ids)].terms \o ProfileTerms(Tail(ids), profiles)

RECURSIVE ProfileCorrections(_, _)
ProfileCorrections(ids, profiles) ==
  IF ids = <<>> THEN <<>>
  ELSE profiles[Head(ids)].corrections \o ProfileCorrections(Tail(ids), profiles)

\* HashMap::new()
EmptyMap == [k \in {} |-> <<>>]

\* HashMap::insert
MapInsert(map, key, value) ==
  [k \in DOMAIN map \cup {key} |-> IF k = key THEN value ELSE map[k]]

\* HashMap::entry(key).or_insert_with(value)
MapOrInsert(map, key, value) == IF key \in DOMAIN map THEN map ELSE MapInsert(map, key, value)

RECURSIVE InsertTerms(_, _, _)
\* for term in terms { map.insert(term.to_lowercase(), term) }, or or_insert_with
InsertTerms(map, terms, overwrite) ==
  IF terms = <<>> THEN map
  ELSE InsertTerms(IF overwrite
                   THEN MapInsert(map, to_lowercase(Head(terms)), Head(terms))
                   ELSE MapOrInsert(map, to_lowercase(Head(terms)), Head(terms)),
                   Tail(terms), overwrite)

\* A terms_map in which the profile terms overwrite the custom ones.
TermsMapProfilesOverwrite(jsettings, ids, profiles) ==
  InsertTerms(InsertTerms(EmptyMap, jsettings.custom_terms, TRUE),
              ProfileTerms(ids, profiles), TRUE)

\* terms_map: custom terms inserted, profile terms added where the key is free.
terms_map(jsettings, ids, profiles) ==
  InsertTerms(InsertTerms(EmptyMap, jsettings.custom_terms, TRUE),
              ProfileTerms(ids, profiles), FALSE)

RECURSIVE PushUnseen(_, _, _)
\* if seen.insert(key) { terms.push(terms_map[key]) } over the custom terms and
\* then the profile terms
PushUnseen(traversal, seen, map) ==
  IF traversal = <<>> THEN <<>>
  ELSE LET key == to_lowercase(Head(traversal))
       IN IF key \in seen THEN PushUnseen(Tail(traversal), seen, map)
          ELSE (IF key \in DOMAIN map THEN <<map[key]>> ELSE <<>>)
                 \o PushUnseen(Tail(traversal), seen \cup {key}, map)

RECURSIVE InsertCorrections(_, _)
\* for c in corrections { map.insert(c.from.to_lowercase(), c) }
InsertCorrections(map, corrections) ==
  IF corrections = <<>> THEN map
  ELSE InsertCorrections(MapInsert(map, to_lowercase(Head(corrections).from),
                                   Head(corrections)),
                         Tail(corrections))

\* A corrections_map in which the profile corrections are inserted last.
CorrectionsMapProfilesLast(jsettings, ids, profiles) ==
  InsertCorrections(InsertCorrections(EmptyMap, jsettings.custom_corrections),
                    ProfileCorrections(ids, profiles))

\* corrections_map: profile corrections first, custom corrections over them.
corrections_map(jsettings, ids, profiles) ==
  InsertCorrections(InsertCorrections(EmptyMap, ProfileCorrections(ids, profiles)),
                    jsettings.custom_corrections)

\* A comparison by from alone.
CorrectionPrecedesByName(a, b) == StrLess(a.from, b.from)

\* b.from.len().cmp(&a.from.len()).then_with(|| a.from.cmp(&b.from)) is Less
correction_precedes(a, b) ==
  \/ ByteLen(a.from) > ByteLen(b.from)
  \/ ByteLen(a.from) = ByteLen(b.from) /\ StrLess(a.from, b.from)

RECURSIVE SortedCorrections(_)
\* corrections_map.into_values().collect(), then sort_by
SortedCorrections(values) ==
  IF values = {} THEN <<>>
  ELSE LET first == CHOOSE a \in values :
                      \A b \in values \ {a} : correction_precedes(a, b)
       IN <<first>> \o SortedCorrections(values \ {first})

compute_active_dictionary(jsettings, profiles) ==
  LET ids == profile_ids(jsettings, profiles)
      tmap == terms_map(jsettings, ids, profiles)
      cmap == corrections_map(jsettings, ids, profiles)
  IN ActiveDictionary(
       PushUnseen(jsettings.custom_terms \o ProfileTerms(ids, profiles), {}, tmap),
       SortedCorrections({cmap[k] : k \in DOMAIN cmap}))

EnabledProfileLists ==
  {<<>>, <<"web_dev">>, <<"web_dev", "devops">>, <<"devops", "gone", "web_dev">>,
   <<"devops", "devops">>}

CustomTermPool == {<<"T", "A">>, <<"T", "a">>, <<"g", "o">>}

CustomCorrectionPool ==
  {JargonCorrection(<<"A", " ", "b">>, <<"a", "b">>),
   JargonCorrection(<<"Z">>, <<"t">>),
   JargonCorrection(<<"g", "o">>, <<"T", "a">>),
   JargonCorrection(<<"a", " ", "b", " ", "2">>, <<"a", "b", "2">>)}

RECURSIVE ListsOf(_, _)
\* The lists of at most n elements of pool.
ListsOf(pool, n) ==
  IF n = 0 THEN {<<>>}
  ELSE LET shorter == ListsOf(pool, n - 1)
       IN shorter \cup {Append(l, x) : l \in shorter, x \in pool}

DictInit ==
  /\ ConcIdle
  /\ LoadIdle
  /\ BoundaryIdle
  /\ EditIdle
  /\ DupIdle
  /\ DictIdle
  /\ PipelineAbsent
  /\ StopIdle
  /\ DiffIdle
  /\ SelectorIdle
  /\ JargonIdle
  /\ RollingIdle

\* One call of compute_active_dictionary.
ComputeActiveDictionary ==
  /\ dict_pc = "idle"
  /\ \E e \in EnabledProfileLists, t \in ListsOf(CustomTermPool, MaxDictLen),
        c \in ListsOf(CustomCorrectionPool, MaxDictLen) :
       /\ jargon_settings' = JargonSettings(e, t, c)
       /\ dict' = compute_active_dictionary(JargonSettings(e, t, c), BuiltinProfiles)
  /\ dict_pc' = "returned"
  /\ UNCHANGED <<pipeline_vars, stop_vars, diff_vars, selector_vars, jargon_vars,
                 rolling_vars, dup_vars, edit_vars, boundary_vars, load_vars,
                 conc_vars>>

DictNext == ComputeActiveDictionary

DictSpec == DictInit /\ [][DictNext]_vars

\* -------------------------------------------------- clipboard::apply_text_diff

\* One simulated key press: an arrow, Backspace, or the insertion of a text
\* (typed directly or pasted through the clipboard).
Key(name) == [key |-> name, text |-> <<>>]

InsertText(text) == [key |-> "Insert", text |-> text]

Repeat(event, n) == [i \in 1..n |-> event]

\* input::send_left_arrow(enigo, count) and input::send_right_arrow(enigo,
\* count): count presses of the arrow key.
send_left_arrow(count) == Repeat(Key("Left"), count)

send_right_arrow(count) == Repeat(Key("Right"), count)

\* The focused text field: what one key event does to its text and its cursor
\* (the number of characters before the cursor).
PressKey(field, event) ==
  LET c == field.cursor
      n == Len(field.text)
  IN CASE event.key = "Left" ->
            [field EXCEPT !.cursor = IF c > 0 THEN c - 1 ELSE 0]
       [] event.key = "Right" ->
            [field EXCEPT !.cursor = IF c < n THEN c + 1 ELSE n]
       [] event.key = "Backspace" ->
            IF c = 0 THEN field
            ELSE [text |-> SubSeq(field.text, 1, c - 1) \o SubSeq(field.text, c + 1, n),
                  cursor |-> c - 1]
       [] OTHER ->
            [text |-> SubSeq(field.text, 1, c) \o event.text \o SubSeq(field.text, c + 1, n),
             cursor |-> c + Len(event.text)]

RECURSIVE PressKeys(_, _)
PressKeys(field, events) ==
  IF events = <<>> THEN field
  ELSE PressKeys(PressKey(field, Head(events)), Tail(events))

\* apply_text_diff without the move to the left of the unchanged suffix.
KeySequenceNoLeft(suffix_chars, delete_chars, insert_text) ==
  Repeat(Key("Backspace"), delete_chars)
    \o (IF insert_text # <<>> THEN <<InsertText(insert_text)>> ELSE <<>>)
    \o send_right_arrow(suffix_chars)

\* Steps 1 to 4 of apply_text_diff when used_ax_selection is false (every
\* build but macOS, and macOS when the accessibility call fails): move left
\* past the suffix, Backspace delete_chars times, insert, move right again.
KeySequence(suffix_chars, delete_chars, insert_text) ==
  send_left_arrow(suffix_chars)
    \o Repeat(Key("Backspace"), delete_chars)
    \o (IF insert_text # <<>> THEN <<InsertText(insert_text)>> ELSE <<>>)
    \o send_right_arrow(suffix_chars)

\* The key events apply_text_diff sends and its result: nothing and Ok(())
\* with PasteMethod::None; otherwise the sequence up to the event that fails
\* (fail_at, 0 when none does), whose error is returned.
apply_text_diff_keys(suffix_chars, delete_chars, insert_text, method, fail_at) ==
  LET keys == KeySequence(suffix_chars, delete_chars, insert_text)
  IN IF method = "None" THEN [events |-> <<>>, result |-> "Ok"]
     ELSE IF fail_at \in 1..Len(keys)
       THEN [events |-> SubSeq(keys, 1, fail_at - 1), result |-> "Err"]
       ELSE [events |-> keys, result |-> "Ok"]

\* PasteMethod: CtrlV stands for the three clipboard shortcuts, which share
\* one branch of apply_text_diff.
EditMethods == {"None", "Direct", "CtrlV"}

EditPrefixes == {<<>>, <<"b">>}

EditInit ==
  /\ ConcIdle
  /\ LoadIdle
  /\ BoundaryIdle
  /\ PipelineAbsent
  /\ StopIdle
  /\ DiffIdle
  /\ SelectorIdle
  /\ JargonIdle
  /\ RollingIdle
  /\ DictIdle
  /\ DupIdle
  /\ edit_before \in EditPrefixes
  /\ edit_a \in DiffTexts
  /\ edit_b \in DiffTexts
  /\ edit_method \in EditMethods
  /\ edit_fail \in 0..MaxDiffLen
  /\ editor = [text |-> edit_before \o edit_a, cursor |-> Len(edit_before \o edit_a)]
  /\ key_events = <<>>
  /\ edit_result = "none"
  /\ edit_pc = "called"

\* The pipeline's replacement of the raw text already shown: no call when
\* compute_text_diff finds no difference, else apply_text_diff on the diff.
ApplyTextDiff ==
  /\ edit_pc = "called"
  /\ LET diff == compute_text_diff(edit_a, edit_b)
     IN /\ diff # NoDiff
        /\ LET out == apply_text_diff_keys(diff.suffix_chars, diff.delete_chars,
                                           diff.insert, edit_method, edit_fail)
           IN /\ key_events' = out.events
              /\ editor' = PressKeys(editor, out.events)
              /\ edit_result' = out.result
  /\ edit_pc' = "returned"
  /\ UNCHANGED <<edit_before, edit_a, edit_b, edit_method, edit_fail,
                 pipeline_vars, stop_vars, diff_vars, selector_vars, jargon_vars,
                 rolling_vars, dict_vars, dup_vars, boundary_vars, load_vars,
                 conc_vars>>

EditNext == ApplyTextDiff

EditSpec == EditInit /\ [][EditNext]_vars

\* ------------------------------------------------- the boundary of the raw text

\* Segments typed live: empty, a word, a word and a space, an opening bracket,
\* an opening quote.
BoundarySegments == {<<>>, <<"a">>, <<"a", " ">>, <<"a", "(">>, <<"\"">>}

BoundarySegmentLists == UNION {[1..k -> BoundarySegments] : k \in 0..MaxSegments}

\* The remaining chunk as the engine returns it.
BoundaryRemaining == UNION {[1..k -> {"a", " ", ".", ")"}] : k \in 0..MaxLen + 1}

BoundaryInit ==
  /\ ConcIdle
  /\ LoadIdle
  /\ PipelineAbsent
  /\ StopIdle
  /\ DiffIdle
  /\ SelectorIdle
  /\ JargonIdle
  /\ RollingIdle
  /\ DictIdle
  /\ DupIdle
  /\ EditIdle
  /\ bnd_segments \in BoundarySegmentLists
  /\ bnd_remaining \in BoundaryRemaining
  /\ bnd_raw = <<>>
  /\ bnd_pc = "called"

\* transcribe_and_paste (post-process mode) rebuilds raw_text.
RebuildRawText ==
  /\ bnd_pc = "called"
  /\ bnd_raw' = raw_text_for_post_process(bnd_segments, bnd_remaining)
  /\ bnd_pc' = "returned"
  /\ UNCHANGED <<bnd_segments, bnd_remaining, pipeline_vars, stop_vars, diff_vars,
                 selector_vars, jargon_vars, rolling_vars, dict_vars, dup_vars,
                 edit_vars, load_vars, conc_vars>>

BoundaryNext == RebuildRawText

BoundarySpec == BoundaryInit /\ [][BoundaryNext]_vars

\* ------------------------------------------ TranscriptionManager: model load

TranscribeThreads == 1..MaxTranscribers

Free == <<"free", 0>>

\* TranscriptionManager::new; every transcribe call still to be made.
LoadInit ==
  /\ ConcIdle
  /\ PipelineAbsent
  /\ StopIdle
  /\ DiffIdle
  /\ SelectorIdle
  /\ JargonIdle
  /\ RollingIdle
  /\ DictIdle
  /\ DupIdle
  /\ EditIdle
  /\ BoundaryIdle
  /\ is_loading = FALSE
  /\ is_loading_lock = Free
  /\ engine = FALSE
  /\ initiate_pc = "idle"
  /\ initiate_count = 0
  /\ load_pc = "idle"
  /\ tr_pc = [t \in TranscribeThreads |-> "idle"]
  /\ tr_result = [t \in TranscribeThreads |-> "none"]
  /\ tr_checked_in_flight = [t \in TranscribeThreads |-> FALSE]

LoadOthersUnchanged ==
  UNCHANGED <<pipeline_vars, stop_vars, diff_vars, selector_vars, jargon_vars,
              rolling_vars, dict_vars, dup_vars, edit_vars, boundary_vars, conc_vars>>

\* initiate_model_load: self.is_loading.lock()
InitiateLock ==
  /\ initiate_pc = "idle"
  /\ initiate_count < MaxLoadCalls
  /\ is_loading_lock = Free
  /\ is_loading_lock' = <<"initiate", 0>>
  /\ initiate_pc' = "locked"
  /\ initiate_count' = initiate_count + 1
  /\ UNCHANGED <<is_loading, engine, load_pc, tr_pc, tr_result, tr_checked_in_flight>>
  /\ LoadOthersUnchanged

\* initiate_model_load under the lock: return when a load is running or the
\* model is loaded, else set is_loading and spawn the load thread.
InitiateModelLoad ==
  /\ initiate_pc = "locked"
  /\ IF is_loading \/ engine
     THEN UNCHANGED <<is_loading, load_pc>>
     ELSE is_loading' = TRUE /\ load_pc' = "loading"
  /\ is_loading_lock' = Free
  /\ initiate_pc' = "idle"
  /\ UNCHANGED <<engine, initiate_count, tr_pc, tr_result, tr_checked_in_flight>>
  /\ LoadOthersUnchanged

\* The load thread: load_model returns, with the engine stored or with an error.
LoadModel ==
  /\ load_pc = "loading"
  /\ \E ok \in BOOLEAN : engine' = (engine \/ ok)
  /\ load_pc' = "loaded"
  /\ UNCHANGED <<is_loading, is_loading_lock, initiate_pc, initiate_count, tr_pc,
                 tr_result, tr_checked_in_flight>>
  /\ LoadOthersUnchanged

\* The load thread: self_clone.is_loading.lock()
LoadThreadLock ==
  /\ load_pc = "loaded"
  /\ is_loading_lock = Free
  /\ is_loading_lock' = <<"loader", 0>>
  /\ load_pc' = "locked"
  /\ UNCHANGED <<is_loading, engine, initiate_pc, initiate_count, tr_pc, tr_result,
                 tr_checked_in_flight>>
  /\ LoadOthersUnchanged

\* LoadThreadFinish without loading_condvar.notify_all().
LoadThreadFinishNoNotify ==
  /\ load_pc = "locked"
  /\ is_loading' = FALSE
  /\ is_loading_lock' = Free
  /\ load_pc' = "idle"
  /\ UNCHANGED <<engine, initiate_pc, initiate_count, tr_pc, tr_result,
                 tr_checked_in_flight>>
  /\ LoadOthersUnchanged

\* The load thread: *is_loading = false, notify_all, and the guard is dropped
\* as the thread ends.
LoadThreadFinish ==
  /\ load_pc = "locked"
  /\ is_loading' = FALSE
  /\ tr_pc' = [t \in TranscribeThreads |->
                IF tr_pc[t] = "waiting" THEN "woken" ELSE tr_pc[t]]
  /\ is_loading_lock' = Free
  /\ load_pc' = "idle"
  /\ UNCHANGED <<engine, initiate_pc, initiate_count, tr_result, tr_checked_in_flight>>
  /\ LoadOthersUnchanged

\* transcribe is called with audio that is not empty.
TranscribeCall(t) ==
  /\ tr_pc[t] = "idle"
  /\ tr_pc' = [tr_pc EXCEPT ![t] = "acquire"]
  /\ UNCHANGED <<is_loading, is_loading_lock, engine, initiate_pc, initiate_count,
                 load_pc, tr_result, tr_checked_in_flight>>
  /\ LoadOthersUnchanged

\* transcribe: self.is_loading.lock(), or the mutex taken again as
\* Condvar::wait returns.
TranscribeLock(t) ==
  /\ tr_pc[t] \in {"acquire", "woken"}
  /\ is_loading_lock = Free
  /\ is_loading_lock' = <<"transcribe", t>>
  /\ tr_pc' = [tr_pc EXCEPT ![t] = "check"]
  /\ UNCHANGED <<is_loading, engine, initiate_pc, initiate_count, load_pc, tr_result,
                 tr_checked_in_flight>>
  /\ LoadOthersUnchanged

\* TranscribeCheck without the wait for the load.
TranscribeCheckNoWait(t) ==
  /\ tr_pc[t] = "check"
  /\ is_loading_lock = <<"transcribe", t>>
  /\ tr_pc' = [tr_pc EXCEPT ![t] = "returned"]
  /\ tr_result' = [tr_result EXCEPT ![t] = IF engine THEN "engine" ELSE "not loaded"]
  /\ tr_checked_in_flight' = [tr_checked_in_flight EXCEPT ![t] = load_pc # "idle"]
  /\ is_loading_lock' = Free
  /\ UNCHANGED <<is_loading, engine, initiate_pc, initiate_count, load_pc>>
  /\ LoadOthersUnchanged

\* transcribe, holding the mutex: while *is_loading, Condvar::wait (the mutex
\* is released and the thread parked in one step); else the engine slot is
\* checked, still under the mutex, and the block is left.
TranscribeCheck(t) ==
  /\ tr_pc[t] = "check"
  /\ is_loading_lock = <<"transcribe", t>>
  /\ IF is_loading
     THEN /\ tr_pc' = [tr_pc EXCEPT ![t] = "waiting"]
          /\ UNCHANGED <<tr_result, tr_checked_in_flight>>
     ELSE /\ tr_pc' = [tr_pc EXCEPT ![t] = "returned"]
          /\ tr_result' = [tr_result EXCEPT
                             ![t] = IF engine THEN "engine" ELSE "not loaded"]
          /\ tr_checked_in_flight' =
               [tr_checked_in_flight EXCEPT ![t] = load_pc # "idle"]
  /\ is_loading_lock' = Free
  /\ UNCHANGED <<is_loading, engine, initiate_pc, initiate_count, load_pc>>
  /\ LoadOthersUnchanged

\* Condvar::wait may return without a notification.
SpuriousWakeup(t) ==
  /\ tr_pc[t] = "waiting"
  /\ tr_pc' = [tr_pc EXCEPT ![t] = "woken"]
  /\ UNCHANGED <<is_loading, is_loading_lock, engine, initiate_pc, initiate_count,
                 load_pc, tr_result, tr_checked_in_flight>>
  /\ LoadOthersUnchanged

LoadNext ==
  \/ InitiateLock
  \/ InitiateModelLoad
  \/ LoadModel
  \/ LoadThreadLock
  \/ LoadThreadFinish
  \/ \E t \in TranscribeThreads : TranscribeCall(t)
  \/ \E t \in TranscribeThreads : TranscribeLock(t)
  \/ \E t \in TranscribeThreads : TranscribeCheck(t)
  \/ \E t \in TranscribeThreads : SpuriousWakeup(t)

LoadSpec == LoadInit /\ [][LoadNext]_vars

\* Every thread that can take a step is scheduled in the end: the caller of
\* initiate_model_load inside its critical section, the load thread, and the
\* transcribe calls once made. A thread blocked in lock() gets the mutex in the
\* end when it is released again and again (strong fairness).
LoadFairSpec ==
  /\ LoadSpec
  /\ WF_vars(InitiateModelLoad)
  /\ WF_vars(LoadModel)
  /\ SF_vars(LoadThreadLock)
  /\ WF_vars(LoadThreadFinish)
  /\ \A t \in TranscribeThreads : SF_vars(TranscribeLock(t))
  /\ \A t \in TranscribeThreads : WF_vars(TranscribeCheck(t))

\* ------------------------------------------- concurrent selection calls

ConcCalls == {1, 2}

\* What a selection call does once recv_timeout has returned the ranking.
SelectAfterRecv(call, ranked, last) ==
  IF call.kind = "profiles" THEN select_profiles_after_recv(call, ranked, last)
  ELSE select_prompt_after_recv(call, ranked, last)

\* Two calls of the same selection function, each with the ranking its worker
\* delivered, on a selector that has no memory yet or remembers A.
ConcInit ==
  /\ PipelineAbsent
  /\ StopIdle
  /\ DiffIdle
  /\ SelectorIdle
  /\ JargonIdle
  /\ RollingIdle
  /\ DictIdle
  /\ DupIdle
  /\ EditIdle
  /\ BoundaryIdle
  /\ LoadIdle
  /\ conc_initial \in {NoSelection, [is_some |-> TRUE, profile_id |-> "A", score |-> 30]}
  /\ conc_memory = conc_initial
  /\ \E kind \in {"profiles", "prompt"}, k \in {0, 3}, h \in {0, 8} :
       conc_args = [NoCall EXCEPT !.kind = kind, !.context = <<"a">>,
                                  !.domain_selector_enabled = TRUE,
                                  !.post_process_auto_prompt_selection = TRUE,
                                  !.domain_selector_top_k = k,
                                  !.domain_selector_min_score = 5,
                                  !.domain_selector_hysteresis = h]
  /\ conc_scoring \in [ConcCalls -> Scorings]
  /\ conc_pc = [t \in ConcCalls |-> "ranked"]
  /\ conc_read = [t \in ConcCalls |-> NoSelection]
  /\ conc_result = [t \in ConcCalls |-> NoIds]

ConcOthersUnchanged ==
  UNCHANGED <<pipeline_vars, stop_vars, diff_vars, selector_vars, jargon_vars,
              rolling_vars, dict_vars, dup_vars, edit_vars, boundary_vars, load_vars>>

\* The call applies the floor; with a candidate left it locks the memory,
\* clones it and lets the lock go.
ConcReadMemory(t) ==
  /\ conc_pc[t] = "ranked"
  /\ IF SelectAfterRecv(conc_args, score_profiles(conc_scoring[t]), conc_memory).result.is_some
     THEN /\ conc_read' = [conc_read EXCEPT ![t] = conc_memory]
          /\ conc_pc' = [conc_pc EXCEPT ![t] = "read"]
     ELSE /\ conc_pc' = [conc_pc EXCEPT ![t] = "returned"]
          /\ UNCHANGED conc_read
  /\ UNCHANGED <<conc_memory, conc_initial, conc_args, conc_scoring, conc_result>>
  /\ ConcOthersUnchanged

\* The call decides on the memory it read, locks the memory again to store its
\* winner, and returns.
ConcWriteMemory(t) ==
  /\ conc_pc[t] = "read"
  /\ LET done == SelectAfterRecv(conc_args, score_profiles(conc_scoring[t]), conc_read[t])
     IN /\ conc_memory' = done.memory
        /\ conc_result' = [conc_result EXCEPT ![t] = done.result]
  /\ conc_pc' = [conc_pc EXCEPT ![t] = "returned"]
  /\ UNCHANGED <<conc_initial, conc_args, conc_scoring, conc_read>>
  /\ ConcOthersUnchanged

ConcNext ==
  \/ \E t \in ConcCalls : ConcReadMemory(t)
  \/ \E t \in ConcCalls : ConcWriteMemory(t)

ConcSpec == ConcInit /\ [][ConcNext]_vars

\* ------------------------------------------------------------------ claims

InjectionOps == {"paste", "paste_raw", "apply_text_diff"}

CallsOf(op) == {i \in DOMAIN calls : calls[i].op = op}

\* The calls that inject the run's text (not the trailing space of the policy).
FinalCalls == {i \in DOMAIN calls : calls[i].op \in InjectionOps /\ calls[i].site = "final"}

Has(tag) == \E i \in DOMAIN trail : trail[i].tag = tag

VariantOf(tag) == trail[CHOOSE i \in DOMAIN trail : trail[i].tag = tag]

\* The pre-emitted segments the run was constructed with.
segments_in == trail[1].pasted_segments

\* run has returned and the main thread has run what it was handed.
Quiescent == pc = "returned" /\ mainq = <<>>

TranscribedOk == engine_result.returned /\ engine_result.ok

\* The transcript of segments and remaining chunk is not the empty string.
TranscriptNonEmpty ==
  \/ engine_result.text # <<>>
  \/ \E i \in DOMAIN segments_in : segments_in[i] # <<>>

ForwardPaths ==
  {<<"Stopped">>,
   <<"Stopped", "Done">>,
   <<"Stopped", "RawTextVisible">>,
   <<"Stopped", "RawTextVisible", "Done">>,
   <<"Stopped", "RawTextVisible", "PostProcessed">>,
   <<"Stopped", "RawTextVisible", "PostProcessed", "Done">>}

\* C1: the variants self.state is assigned follow Stopped -> RawTextVisible ->
\* PostProcessed -> Done, with only the shortcuts Stopped -> Done and
\* RawTextVisible -> Done, none twice; run's loop always sees the variant last
\* assigned, and no transition is entered in a variant other than its source
\* (no unreachable!() arm is hit).
C1_ForwardOnly ==
  /\ \E path \in ForwardPaths :
       /\ Len(path) = Len(trail)
       /\ \A i \in DOMAIN trail : trail[i].tag = path[i]
  /\ pc # "unreachable"
  /\ pc = "loop" => state = trail[Len(trail)]

C1_Witness ==
  /\ pc = "returned"
  /\ Len(trail) = 4
  /\ trail[3].tag = "PostProcessed"
  /\ state.tag = "Done"

C3_ExactlyOnePaste ==
  (Quiescent /\ ~post_process /\ TranscribedOk /\ TranscriptNonEmpty
     /\ dispatch_errors = 0) =>
    /\ Cardinality(CallsOf("paste")) = 1
    /\ CallsOf("paste_raw") = {}
    /\ CallsOf("apply_text_diff") = {}

\* C3 amended: with post-processing disabled and a non-empty transcript, a run
\* makes no paste_raw or replace-range call and at most one paste call: exactly
\* one when there is text left to paste (no segment was pre-emitted, or the
\* remaining chunk is not empty) and the hand-off to the main thread succeeds,
\* and then of the whole transcript if no segment was pre-emitted and of the
\* remaining chunk alone otherwise; none in the other cases.
C3_PasteWhatIsLeft ==
  (Quiescent /\ ~post_process /\ TranscribedOk /\ TranscriptNonEmpty) =>
    /\ CallsOf("paste_raw") = {}
    /\ CallsOf("apply_text_diff") = {}
    /\ IF (segments_in = <<>> \/ engine_result.text # <<>>) /\ dispatch_errors = 0
       THEN /\ Cardinality(CallsOf("paste")) = 1
            /\ \A i \in CallsOf("paste") :
                 calls[i].text = expand_at_refs_for_output(settings, engine_result.text)
       ELSE CallsOf("paste") = {}

C3_Witness ==
  /\ Quiescent /\ ~post_process /\ TranscribedOk
  /\ \E i \in DOMAIN segments_in : segments_in[i] # <<>>
  /\ Cardinality(CallsOf("paste")) = 1
  /\ \A i \in CallsOf("paste") : calls[i].text = engine_result.text /\ calls[i].text # <<>>

\* The PostProcessed -> Done step has run, the run has returned and the main
\* thread has run what the step handed to it.
FinalStepDone == Quiescent /\ Has("PostProcessed") /\ state.tag = "Done"

\* The policy ran once, and after every injection of the run's text.
PolicyOnceAfterText ==
  /\ Cardinality(CallsOf("policy")) = 1
  /\ \A i \in FinalCalls : \A j \in CallsOf("policy") : i < j
  /\ \A j \in DOMAIN calls :
       (calls[j].site = "trailing" /\ calls[j].op # "policy") =>
         \E k \in CallsOf("policy") : k < j

C5_DiffAfterLiveTyping ==
  (post_process /\ \E k \in DOMAIN segments_in : segments_in[k] # <<>>) =>
    /\ \A i \in DOMAIN trail :
         trail[i].tag \in {"RawTextVisible", "PostProcessed"} => trail[i].raw_text_pasted
    /\ FinalStepDone /\ dispatch_errors = 0 =>
         LET pp == VariantOf("PostProcessed")
             diff == compute_text_diff(pp.raw_text, pp.final_text)
         IN /\ CallsOf("paste") = {} /\ CallsOf("paste_raw") \cap FinalCalls = {}
            /\ IF diff.is_some
               THEN /\ Cardinality(CallsOf("apply_text_diff")) = 1
                    /\ \A i \in CallsOf("apply_text_diff") :
                         /\ calls[i].suffix_chars = diff.suffix_chars
                         /\ calls[i].delete_chars = diff.delete_chars
                         /\ calls[i].text = diff.insert
               ELSE CallsOf("apply_text_diff") = {}

\* C6: once transcribe has succeeded the run ends only by returning from run,
\* with Done as its last variant, whatever the rewrite and the text-injection
\* calls do.
C6_AlwaysReachesDone ==
  TranscribedOk =>
    /\ pc \in {"loop", "returned"}
    /\ pc = "returned" => visited[Len(visited)] = "Done"

\* C7: when transcribe returns an error the run has returned at once: transcribe
\* was called exactly once, nothing was or will be injected, no rewrite request
\* was sent, no history save was spawned, and neither RawTextVisible nor
\* PostProcessed was entered.
C7_AbortOnEngineError ==
  (engine_result.returned /\ ~engine_result.ok) =>
    /\ pc = "returned"
    /\ transcribe_calls = 1
    /\ calls = <<>> /\ mainq = <<>>
    /\ rewrite_calls = 0
    /\ history = <<>>
    /\ ~Has("RawTextVisible") /\ ~Has("PostProcessed")

C7_Witness ==
  /\ engine_result.returned /\ ~engine_result.ok
  /\ pc = "returned"
  /\ post_process
  /\ segments_in # <<>>

\* The rewrite failed, was skipped, had no content, or had content that is empty
\* once post_process_transcription has sanitized it.
RewriteFailedOrEmpty ==
  /\ rewrite_result.returned
  /\ \/ rewrite_result.kind \in {"skipped", "err", "none"}
     \/ strip_leaked_prompt_instructions(RemoveZeroWidth(rewrite_result.text)) = <<>>

\* C8: when the rewrite fails, returns no content or returns empty text, the
\* final_text of PostProcessed is the text that was handed to the rewrite
\* (here: up to the @file expansion every final text goes through).
C8_FallbackToPreRewrite ==
  (Has("PostProcessed") /\ RewriteFailedOrEmpty) =>
    VariantOf("PostProcessed").final_text =
      expand_at_refs_for_output(settings, rewrite_result.pre_rewrite)

\* C9: when segments and remaining chunk make up the empty transcript, the run
\* goes from Stopped to Done and nothing is injected or handed to the main
\* thread, no rewrite request is sent and no history save is spawned, with
\* post-processing enabled or not.
C9_EmptyTranscriptNoOp ==
  (TranscribedOk /\ ~TranscriptNonEmpty) =>
    /\ Len(trail) = 2 /\ trail[2].tag = "Done"
    /\ calls = <<>> /\ mainq = <<>>
    /\ rewrite_calls = 0
    /\ history = <<>>

C9_Witness ==
  /\ TranscribedOk /\ ~TranscriptNonEmpty
  /\ segments_in # <<>>
  /\ post_process
  /\ pc = "returned"

\* C10: however a run ends, once run has returned (and the main thread has run
\* what it was handed) the overlay is hidden and the tray is idle.
C10_OverlayHiddenAtReturn ==
  Quiescent => (overlay = "hidden" /\ tray = "Idle")

\* C11: whenever run has returned, on every path, the binding's flag
\* active_toggles[binding_id] is false.
C11_ToggleClearedAtReturn ==
  pc = "returned" => ~active_toggles

\* C12: a pipeline exists only if the stop request's binding owned the recording
\* when stop looked and still owned it when the task took the samples; a stop
\* that found another owner or none (the recording was cancelled, before the
\* request or before its task ran) has constructed no pipeline, called transcribe
\* and the text-injection service not at all, and left the binding's flag false.
C12_StopOnlyForOwner ==
  /\ pc # "absent" =>
       (stop_log.at_request = binding_id /\ stop_log.at_task = binding_id)
  /\ (\/ stop_log.at_request \notin {"unseen", binding_id}
      \/ stop_log.at_task \notin {"unseen", binding_id}) =>
       /\ pc = "absent"
       /\ transcribe_calls = 0
       /\ calls = <<>> /\ mainq = <<>>
       /\ ~active_toggles

C12_Witness ==
  /\ stop_log.at_request = binding_id
  /\ stop_log.at_task = "none"
  /\ stop_pc = "no_samples"
  /\ pc = "absent"
  /\ ~active_toggles

\* compute_text_diff has returned for two differing texts.
DiffReturned == diff_pc = "returned" /\ diff_original # diff_processed

\* The last n characters of s.
LastChars(s, n) == SubSeq(s, Len(s) - n + 1, Len(s))

\* C13: for differing texts a and b and d = diff(a, b), the first
\* len(a) - d.suffix_chars - d.delete_chars characters of a, then d.insert, then
\* the last d.suffix_chars characters of a, make b.
C13_DiffRoundTrip ==
  DiffReturned =>
    LET d == diff_result
        kept == Len(diff_original) - d.suffix_chars - d.delete_chars
    IN /\ d.is_some
       /\ kept >= 0
       /\ SubSeq(diff_original, 1, kept) \o d.insert
            \o LastChars(diff_original, d.suffix_chars) = diff_processed

C13_Witness ==
  /\ DiffReturned
  /\ diff_result.suffix_chars > 0
  /\ diff_result.delete_chars > 0
  /\ diff_result.insert # <<>>
  /\ Len(diff_original) - diff_result.suffix_chars - diff_result.delete_chars > 0

\* C14: compute_text_diff returns None exactly when the two texts are equal, and
\* a diff it returns deletes something or inserts something.
C14_NoneIffEqual ==
  diff_pc = "returned" =>
    /\ ~diff_result.is_some <=> diff_original = diff_processed
    /\ diff_result.is_some =>
         (diff_result.delete_chars > 0 \/ diff_result.insert # <<>>)

C14_Witness ==
  /\ diff_pc = "returned"
  /\ diff_original = diff_processed
  /\ diff_original # <<>>
  /\ ~diff_result.is_some

\* The length of the longest common prefix of a and b.
LongestCommonPrefix(a, b) ==
  CHOOSE k \in 0..Min(Len(a), Len(b)) :
    /\ SubSeq(a, 1, k) = SubSeq(b, 1, k)
    /\ \A j \in (k + 1)..Min(Len(a), Len(b)) : SubSeq(a, 1, j) # SubSeq(b, 1, j)

\* The length of the longest common suffix of a and b of at most cap characters.
LongestCommonSuffix(a, b, cap) ==
  CHOOSE k \in 0..cap :
    /\ LastChars(a, k) = LastChars(b, k)
    /\ \A j \in (k + 1)..cap : LastChars(a, j) # LastChars(b, j)

\* C15: for differing texts, with p the length of the longest common prefix and
\* s that of the longest common suffix of at most min(len) - p characters, the
\* diff has suffix_chars = s, delete_chars = len(original) - p - s and insert =
\* processed[p .. len(processed) - s]; p + s exceeds neither length, so neither
\* is negative or out of range; diff("bad world", "good world") is suffix 7,
\* delete 2, insert "goo".
C15_PrefixSuffixBounded ==
  DiffReturned =>
    LET d == diff_result
        shorter == Min(Len(diff_original), Len(diff_processed))
        p == LongestCommonPrefix(diff_original, diff_processed)
        s == LongestCommonSuffix(diff_original, diff_processed, shorter - p)
    IN /\ d.suffix_chars = s
       /\ p + d.suffix_chars <= shorter
       /\ d.delete_chars = Len(diff_original) - p - s
       /\ d.delete_chars >= 0
       /\ p <= Len(diff_processed) - d.suffix_chars
       /\ d.insert = SubSeq(diff_processed, p + 1, Len(diff_processed) - s)
       /\ (diff_original = BadWorld /\ diff_processed = GoodWorld) =>
            /\ d.suffix_chars = 7
            /\ d.delete_chars = 2
            /\ d.insert = <<"g", "o", "o">>

C15_Witness ==
  /\ DiffReturned
  /\ diff_original = <<"a", "a">>
  /\ diff_processed = <<"a">>
  /\ diff_result = [is_some |-> TRUE, suffix_chars |-> 0, delete_chars |-> 1,
                    insert |-> <<>>]

\* The SelectionMemory the current call found: last_selection for a profile
\* selection, last_prompt_selection for a prompt selection.
MemoryBefore ==
  IF sel_call.kind = "profiles" THEN sel_call.before[1] ELSE sel_call.before[2]

\* The candidates of the current call whose score reaches the floor.
AboveFloor ==
  {i \in DOMAIN sel_call.scoring :
     /\ sel_call.scoring[i] > 0
     /\ sel_call.scoring[i] >= sel_call.domain_selector_min_score}

\* The current call's top candidate: the best score, the smaller id on a tie.
TopCandidate ==
  CHOOSE i \in AboveFloor : \A j \in AboveFloor :
    \/ sel_call.scoring[i] > sel_call.scoring[j]
    \/ sel_call.scoring[i] = sel_call.scoring[j] /\ IdRank(i) <= IdRank(j)

\* The worker delivered in time and some candidate reached the floor.
Ranked ==
  sel_pc = "returned" /\ sel_call.outcome = "delivered" /\ AboveFloor # {}

\* The previous winner is returned at rank 0; the new top candidate, where the
\* result has room for it, comes right after.
PreviousWinnerFirst ==
  /\ sel_result.is_some
  /\ sel_result.ids[1] = MemoryBefore.profile_id
  /\ \A k \in DOMAIN sel_result.ids : sel_result.ids[k] = TopCandidate => k > 1
  /\ Len(sel_result.ids) >= 2 => sel_result.ids[2] = TopCandidate

\* The current call's top candidate is not the id the SelectionMemory holds.
Switched ==
  Ranked /\ MemoryBefore.is_some /\ TopCandidate # MemoryBefore.profile_id

\* C16 as stated: when the call's top candidate is not SelectionMemory.last_id
\* and its score does not beat (is not greater than) last_score + hysteresis,
\* the previous winner is returned at rank 0, ahead of the new top candidate.
C16_HoldUnlessBeaten ==
  (/\ Switched
   /\ ~(sel_call.scoring[TopCandidate] >
          MemoryBefore.score + sel_call.domain_selector_hysteresis)) =>
    PreviousWinnerFirst

\* C16 amended: when the call's top candidate is not SelectionMemory.last_id
\* and its score is below last_score + hysteresis, the previous winner is
\* returned at rank 0, ahead of the new top candidate; a top candidate that
\* reaches last_score + hysteresis exactly takes rank 0 itself.
C16_HysteresisHold ==
  /\ (/\ Switched
      /\ sel_call.scoring[TopCandidate] <
           MemoryBefore.score + sel_call.domain_selector_hysteresis) =>
       PreviousWinnerFirst
  /\ (/\ Switched
      /\ sel_call.scoring[TopCandidate] =
           MemoryBefore.score + sel_call.domain_selector_hysteresis) =>
       sel_result.is_some /\ sel_result.ids[1] = TopCandidate

C16_Witness ==
  /\ Ranked
  /\ sel_call.kind = "profiles"
  /\ MemoryBefore = [is_some |-> TRUE, profile_id |-> "A", score |-> 30]
  /\ TopCandidate = "B"
  /\ sel_call.scoring["B"] = 33
  /\ sel_call.domain_selector_hysteresis = 8
  /\ sel_result = [is_some |-> TRUE, ids |-> <<"A", "B">>]

\* C17: a call that has returned no selection (disabled, blank context, timeout,
\* nothing at or above the floor) has left last_selection and
\* last_prompt_selection as they were when it began; so has a call still
\* waiting for its worker.
C17_MemoryOnlyOnSuccess ==
  (sel_pc = "waiting" \/ (sel_pc = "returned" /\ ~sel_result.is_some)) =>
    <<last_selection, last_prompt_selection>> = sel_call.before

C17_Witness ==
  /\ sel_pc = "returned"
  /\ ~sel_result.is_some
  /\ sel_call.kind = "profiles"
  /\ sel_call.outcome = "delivered"
  /\ \E i \in DOMAIN sel_call.scoring : sel_call.scoring[i] > 0
  /\ last_selection.is_some

\* C18: a call whose wait timed out has returned None, and its caller goes on
\* with the manually enabled profiles, or with the manually selected prompt id.
C18_TimeoutFailsOpen ==
  (sel_pc = "returned" /\ sel_call.outcome = "timeout") =>
    /\ sel_result = NoIds
    /\ sel_effective = (IF sel_call.kind = "profiles"
                        THEN sel_call.jargon_enabled_profiles
                        ELSE sel_call.post_process_selected_prompt_id.ids)

C18_Witness ==
  /\ sel_pc = "returned"
  /\ sel_call.outcome = "timeout"
  /\ sel_call.kind = "profiles"
  /\ sel_call.jargon_enabled_profiles = <<"A">>
  /\ sel_effective = <<"A">>
  /\ last_selection.is_some

\* The selector the call is made on is disabled by its setting.
DisabledBySetting ==
  \/ sel_call.kind = "profiles" /\ ~sel_call.domain_selector_enabled
  \/ sel_call.kind = "prompt" /\ ~sel_call.post_process_auto_prompt_selection

BlankContext == \A k \in DOMAIN sel_call.context : IsWhitespace(sel_call.context[k])

\* C19: a call whose context text is empty or whitespace only, or whose
\* selector is disabled, returns None without ever waiting, and spawns no
\* scoring worker.
C19_NoWorkWhenBlankOrDisabled ==
  (sel_call.kind # "none" /\ (DisabledBySetting \/ BlankContext)) =>
    /\ sel_pc = "returned"
    /\ sel_call.outcome = "immediate"
    /\ sel_result = NoIds
    /\ workers.spawned = sel_call.spawned_before

C19_Witness ==
  /\ sel_pc = "returned"
  /\ sel_call.kind = "profiles"
  /\ sel_call.domain_selector_enabled
  /\ sel_call.context = <<" ">>
  /\ sel_call.spawned_before = 1
  /\ workers.spawned = 1

\* The spans of jar_text that mask_protected_spans protects.
ProtectedSpans == mask_protected_spans(jar_text).spans

\* C20: every protected span of the text (an @file.ext token, a backtick span,
\* a URL, a path, a --flag) is a substring of what apply_corrections returned,
\* whatever the text and the corrections.
C20_ProtectedSpansSurvive ==
  jar_pc = "returned" =>
    \A k \in DOMAIN ProtectedSpans : Contains(jar_result, ProtectedSpans[k].original)

\* A correction has rewritten a placeholder: the masked text no longer holds
\* the placeholder of some span, so restoration cannot put that span back.
PlaceholderMangled ==
  \E k \in DOMAIN jar_spans : ~Contains(jar_masked, jar_spans[k].placeholder)

\* C21: when a correction has mangled a placeholder, apply_corrections returns
\* the text it was given, unmodified.
C21_MangledReturnsOriginal ==
  (jar_pc = "returned" /\ PlaceholderMangled) => jar_result = jar_text

\* C27: a replay with the Perfect strategy ends with the buffer equal to the
\* last hypothesis (the empty text for no hypothesis) and matches_expected
\* true; when the n >= 1 hypotheses are all non-empty, n - 1 rewrites were
\* applied.
C27_PerfectReplay ==
  (replay_pc = "returned" /\ strategy = Perfect) =>
    /\ report.matches_expected
    /\ report.final_actual =
         (IF hypotheses = <<>> THEN <<>> ELSE hypotheses[Len(hypotheses)])
    /\ (/\ Len(hypotheses) >= 1
        /\ \A k \in DOMAIN hypotheses : hypotheses[k] # <<>>) =>
         report.rewrites_applied = Len(hypotheses) - 1

C27_Witness ==
  /\ replay_pc = "returned"
  /\ strategy = Perfect
  /\ hypotheses = <<<<"a">>, <<"b", "a">>, <<"a">>>>
  /\ report.rewrites_applied = 2
  /\ report.final_actual = <<"a">>

\* The masked text the corrections of the current call started from.
MaskedBefore == mask_protected_spans(jar_text).masked

\* text[p] exists and is a word character.
IsWordAt(text, p) == p \in DOMAIN text /\ text[p] \in WordChars

\* The places of text where from occurs, compared without regard to case, with
\* a word boundary before its first and after its last character.
DelimitedOccurrences(text, from) ==
  {i \in DOMAIN text :
     /\ i + Len(from) - 1 <= Len(text)
     /\ \A k \in DOMAIN from : CaseFold(text[i + k - 1]) = CaseFold(from[k])
     /\ IsWordAt(text, i - 1) # IsWordAt(text, i)
     /\ IsWordAt(text, i + Len(from) - 1) # IsWordAt(text, i + Len(from))}

RECURSIVE RewrittenAt(_, _, _, _)
\* text with the occurrences of c.from that start at a place of places replaced
\* by c.to, and every other character kept.
RewrittenAt(text, places, c, i) ==
  IF i > Len(text) THEN <<>>
  ELSE IF i \in places
       THEN c.to \o RewrittenAt(text, places, c, i + Len(c.from))
       ELSE <<text[i]>> \o RewrittenAt(text, places, c, i + 1)

\* C22: what one correction makes of the masked text is the masked text with
\* some of the case-insensitive, word-delimited occurrences of from replaced by
\* to; every character outside those occurrences is kept (a word that is only
\* part of the phrase is not touched).
C22_OnlyDelimitedOccurrences ==
  (jar_pc = "returned" /\ Len(jar_corrections) = 1 /\ jar_text # <<>>) =>
    \E places \in SUBSET DelimitedOccurrences(MaskedBefore, jar_corrections[1].from) :
      jar_masked = RewrittenAt(MaskedBefore, places, jar_corrections[1], 1)

C22_Witness ==
  /\ jar_pc = "returned"
  /\ jar_text = <<"s", " ", "0", " ", "s">>
  /\ jar_corrections = <<JargonCorrection(<<"s", " ", "0">>, <<"s", "0">>)>>
  /\ jar_result = <<"s", "0", " ", "s">>

\* One rule comes before another in the merged corrections.
RuleBefore(i, j) == i \in DOMAIN dict.corrections /\ j \in DOMAIN dict.corrections /\ i < j

\* a is a proper sub-phrase of b, compared as the corrections match: without
\* regard to case.
ProperSubPhrase(a, b) ==
  Len(a) < Len(b) /\ Contains(to_lowercase(b), to_lowercase(a))

\* C23 as stated: the merged corrections are ordered longest from first, the
\* length being the number of characters, ties broken by the order of the
\* from strings.
C23_LongestFirst ==
  dict_pc = "returned" =>
    \A i, j \in DOMAIN dict.corrections : RuleBefore(i, j) =>
      \/ Len(dict.corrections[i].from) > Len(dict.corrections[j].from)
      \/ /\ Len(dict.corrections[i].from) = Len(dict.corrections[j].from)
         /\ StrLess(dict.corrections[i].from, dict.corrections[j].from)

\* C23 amended: the merged corrections are ordered by the length of from in
\* bytes, longest first, ties broken by the byte order of the from strings;
\* a rule whose from is a proper sub-phrase of another rule's from comes after
\* it, and the longer phrase as a text is rewritten as the longer rule alone
\* rewrites it.
C23_LongestBytesFirst ==
  dict_pc = "returned" =>
    \A i, j \in DOMAIN dict.corrections :
      /\ RuleBefore(i, j) =>
           \/ ByteLen(dict.corrections[i].from) > ByteLen(dict.corrections[j].from)
           \/ /\ ByteLen(dict.corrections[i].from) = ByteLen(dict.corrections[j].from)
              /\ StrLess(dict.corrections[i].from, dict.corrections[j].from)
      /\ ProperSubPhrase(dict.corrections[i].from, dict.corrections[j].from) =>
           /\ j < i
           /\ apply_corrections(dict.corrections[j].from, dict.corrections) =
                apply_corrections(dict.corrections[j].from, <<dict.corrections[j]>>)

C23_Witness ==
  /\ dict_pc = "returned"
  /\ Len(dict.corrections) = 4
  /\ dict.corrections[1].from = <<"a", " ", "b", " ", "2">>
  /\ dict.corrections[2].from = <<"A", " ", "b">>
  /\ dict.corrections[3].from = <<"Z">>
  /\ dict.corrections[4].from = <<"g", "o">>
  /\ apply_corrections(<<"a", " ", "b", " ", "2">>, dict.corrections) = <<"a", "b", "2">>
  /\ apply_corrections(<<"a", " ", "b", " ", "2">>, <<dict.corrections[2]>>) # <<"a", "b", "2">>

\* The terms of the enabled profiles that exist, in ascending profile-id order.
EnabledProfileTerms ==
  ProfileTerms(profile_ids(jargon_settings, BuiltinProfiles), BuiltinProfiles)

EnabledProfileCorrections ==
  ProfileCorrections(profile_ids(jargon_settings, BuiltinProfiles), BuiltinProfiles)

\* The elements of a sequence.
Range(seq) == {seq[k] : k \in DOMAIN seq}

\* The places of the merged terms whose lowercase key is key.
TermPlaces(key) == {k \in DOMAIN dict.terms : to_lowercase(dict.terms[k]) = key}

\* C24: a lowercase key that a custom term and a term of an enabled profile
\* share is in the merged terms exactly once, with the casing of a custom term.
C24_CustomCasingWins ==
  dict_pc = "returned" =>
    \A ct \in Range(jargon_settings.custom_terms) :
      (\E pt \in Range(EnabledProfileTerms) : to_lowercase(pt) = to_lowercase(ct)) =>
        /\ Cardinality(TermPlaces(to_lowercase(ct))) = 1
        /\ \A k \in TermPlaces(to_lowercase(ct)) :
             dict.terms[k] \in Range(jargon_settings.custom_terms)

C24_Witness ==
  /\ dict_pc = "returned"
  /\ jargon_settings.custom_terms = <<<<"T", "A">>>>
  /\ jargon_settings.enabled_profiles = <<"web_dev", "devops">>
  /\ dict.terms = <<<<"T", "A">>, <<"g", "o">>, <<"s", "t">>>>

RECURSIVE FirstOccurrences(_, _)
\* The terms of a traversal whose lowercase key no earlier term has.
FirstOccurrences(traversal, seen) ==
  IF traversal = <<>> THEN <<>>
  ELSE IF to_lowercase(Head(traversal)) \in seen
       THEN FirstOccurrences(Tail(traversal), seen)
       ELSE <<Head(traversal)>> \o
            FirstOccurrences(Tail(traversal), seen \cup {to_lowercase(Head(traversal))})

\* C25: the merged terms are the custom terms in their order followed by the
\* terms of the enabled, existing profiles in ascending profile-id order, each
\* lowercase key kept once, at its first occurrence and with the casing of that
\* occurrence.
C25_FirstOccurrenceWins ==
  dict_pc = "returned" =>
    dict.terms = FirstOccurrences(jargon_settings.custom_terms \o EnabledProfileTerms, {})

\* The rules of the merged corrections whose lowercase from is key.
RulesFor(key) ==
  {k \in DOMAIN dict.corrections : to_lowercase(dict.corrections[k].from) = key}

\* C26: a from key that a custom correction and a correction of an enabled
\* profile share, compared without regard to case, has exactly one rule in the
\* merged corrections, and that rule is a custom one.
C26_CustomCorrectionWins ==
  dict_pc = "returned" =>
    \A cc \in Range(jargon_settings.custom_corrections) :
      (\E pc_rule \in Range(EnabledProfileCorrections) :
         to_lowercase(pc_rule.from) = to_lowercase(cc.from)) =>
        /\ Cardinality(RulesFor(to_lowercase(cc.from))) = 1
        /\ \A k \in RulesFor(to_lowercase(cc.from)) :
             dict.corrections[k] \in Range(jargon_settings.custom_corrections)

C26_Witness ==
  /\ dict_pc = "returned"
  /\ jargon_settings.enabled_profiles = <<"web_dev", "devops">>
  /\ jargon_settings.custom_corrections =
       <<JargonCorrection(<<"A", " ", "b">>, <<"a", "b">>)>>
  /\ Len(dict.corrections) = 2
  /\ dict.corrections[2] = JargonCorrection(<<"A", " ", "b">>, <<"a", "b">>)

\* A pipeline has been constructed and its run has not returned.
RunInProgress == pc \notin {"absent", "returned"}

\* A step in which a stop request ends without a pipeline of its own.
LosingStop ==
  \/ stop_pc' # stop_pc /\ stop_pc' \in {"ignored", "no_samples"}
  \/ dup_pc' # dup_pc /\ dup_pc' \in {"ignored", "no_samples"}

\* C28: the two stop requests for one recording never both start a pipeline,
\* and a stop that ends without a pipeline while the other's run is in progress
\* leaves the overlay, the tray and the binding's active flag as they are.
C28_OneRunLoserSilent ==
  /\ [](~(stop_pc = "running" /\ dup_pc = "running"))
  /\ [][(RunInProgress /\ LosingStop) =>
          (overlay' = overlay /\ tray' = tray /\ active_toggles' = active_toggles)]_vars

\* The region of the original a returned diff deletes: delete_chars characters
\* that end suffix_chars before the end.
DeletedRegion ==
  SubSeq(diff_original,
         Len(diff_original) - diff_result.suffix_chars - diff_result.delete_chars + 1,
         Len(diff_original) - diff_result.suffix_chars)

\* C29: when a returned diff deletes something and inserts something, the
\* deleted region and the insert differ in their first characters and in their
\* last characters: no longer common prefix or suffix was left in.
C29_DiffMinimal ==
  (DiffReturned /\ diff_result.delete_chars > 0 /\ diff_result.insert # <<>>) =>
    /\ Head(DeletedRegion) # Head(diff_result.insert)
    /\ DeletedRegion[Len(DeletedRegion)] # diff_result.insert[Len(diff_result.insert)]

C29_Witness ==
  /\ DiffReturned
  /\ diff_original = BadWorld
  /\ diff_processed = GoodWorld
  /\ DeletedRegion = <<"b", "a">>
  /\ diff_result.insert = <<"g", "o", "o">>

\* C30: when apply_text_diff has returned Ok, with a paste method other than
\* None the field that ended with a (cursor at its end) ends with b in place
\* of a and the cursor is at the end, as if a had been replaced by b; with
\* paste method None no key event is sent, the field is untouched and the
\* result is Ok.
C30_KeysReplaceAByB ==
  edit_pc = "returned" =>
    IF edit_method = "None"
    THEN /\ key_events = <<>>
         /\ edit_result = "Ok"
         /\ editor = [text |-> edit_before \o edit_a,
                      cursor |-> Len(edit_before \o edit_a)]
    ELSE edit_result = "Ok" =>
           /\ editor.text = edit_before \o edit_b
           /\ editor.cursor = Len(editor.text)

C30_Witness ==
  /\ edit_pc = "returned"
  /\ edit_method # "None"
  /\ edit_result = "Ok"
  /\ edit_before # <<>>
  /\ \E i \in 1..Len(key_events) : key_events[i].key = "Left"
  /\ \E i \in 1..Len(key_events) : key_events[i].key = "Backspace"
  /\ \E i \in 1..Len(key_events) : key_events[i].key = "Insert"
  /\ editor.text = edit_before \o edit_b

\* The SelectionMemory the current call has left.
MemoryAfter ==
  IF sel_call.kind = "profiles" THEN last_selection ELSE last_prompt_selection

\* The number of ids the current call returns when nothing is re-inserted.
UnheldLen ==
  IF sel_call.kind = "prompt" THEN 1
  ELSE Min(Cardinality(AboveFloor), Max(sel_call.domain_selector_top_k, 1))

\* C31: when the call's top candidate is not SelectionMemory.last_id and its
\* score is at least last_score + hysteresis, the top candidate is returned at
\* rank 0, the previous winner is not re-inserted (the result is the current
\* candidates only, each once), and SelectionMemory.last_id is the top
\* candidate.
C31_HysteresisRelease ==
  (/\ Switched
   /\ sel_call.scoring[TopCandidate] >=
        MemoryBefore.score + sel_call.domain_selector_hysteresis) =>
    /\ sel_result.is_some
    /\ sel_result.ids[1] = TopCandidate
    /\ Len(sel_result.ids) = UnheldLen
    /\ \A k \in DOMAIN sel_result.ids : sel_result.ids[k] \in AboveFloor
    /\ \A j, k \in DOMAIN sel_result.ids : sel_result.ids[j] = sel_result.ids[k] => j = k
    /\ MemoryAfter.is_some
    /\ MemoryAfter.profile_id = TopCandidate

C31_Witness ==
  /\ Ranked
  /\ sel_call.kind = "profiles"
  /\ MemoryBefore = [is_some |-> TRUE, profile_id |-> "A", score |-> 30]
  /\ TopCandidate = "B"
  /\ sel_call.scoring = [i \in SelectorIds |-> IF i = "B" THEN 38 ELSE 33]
  /\ sel_call.domain_selector_hysteresis = 8
  /\ sel_call.domain_selector_top_k = 3
  /\ sel_result = [is_some |-> TRUE, ids |-> <<"B", "A">>]
  /\ last_selection = [is_some |-> TRUE, profile_id |-> "B", score |-> 38]

\* C32: after every successful selection call, SelectionMemory.last_id is the
\* id returned at rank 0 and last_score is the score that id obtained against
\* the current call's text.
C32_MemoryDescribesCall ==
  (sel_pc = "returned" /\ sel_result.is_some) =>
    /\ MemoryAfter.is_some
    /\ MemoryAfter.profile_id = sel_result.ids[1]
    /\ MemoryAfter.score = sel_call.scoring[sel_result.ids[1]]

\* A selection call has returned Some.
Successful == sel_pc = "returned" /\ sel_result.is_some

\* The previous winner was put back at rank 0 by hysteresis.
Held ==
  /\ Switched
  /\ sel_call.scoring[TopCandidate] <
       MemoryBefore.score + sel_call.domain_selector_hysteresis

\* C33: a successful profile selection returns between 1 and top_k ids, top_k
\* being the configured value raised to at least 1, also when the previous
\* winner was re-inserted; a successful prompt selection returns exactly one id.
C33_ResultSize ==
  Successful =>
    IF sel_call.kind = "profiles"
    THEN /\ Len(sel_result.ids) >= 1
         /\ Len(sel_result.ids) <= Max(sel_call.domain_selector_top_k, 1)
    ELSE Len(sel_result.ids) = 1

C33_Witness ==
  /\ Successful
  /\ Held
  /\ sel_call.kind = "profiles"
  /\ sel_call.domain_selector_top_k = 0
  /\ Cardinality(AboveFloor) = 2
  /\ sel_result.ids = <<MemoryBefore.profile_id>>

\* C37: the ids a successful profile selection returns are pairwise distinct.
C37_NoDuplicateIds ==
  (Successful /\ sel_call.kind = "profiles") =>
    \A j, k \in DOMAIN sel_result.ids : sel_result.ids[j] = sel_result.ids[k] => j = k

\* C38: every id a selection call returns is a candidate of that call whose
\* score against the call's text is at or above the minimum-score floor.
C38_ReturnedAboveFloor ==
  Successful => \A k \in DOMAIN sel_result.ids : sel_result.ids[k] \in AboveFloor

\* C34: a scoring worker left behind by a timeout always finishes (its send
\* never blocks), and the step in which it finishes changes neither
\* last_selection, nor last_prompt_selection, nor the call in progress or its
\* result.
C34_AbandonedWorkerHarmless ==
  /\ (workers.abandoned > 0) ~> (workers.abandoned = 0)
  /\ [][workers'.abandoned < workers.abandoned =>
          UNCHANGED <<last_selection, last_prompt_selection, sel_pc, sel_call,
                      sel_result, sel_effective>>]_vars

C34_Witness ==
  /\ sel_pc = "returned"
  /\ sel_call.outcome = "timeout"
  /\ workers.abandoned = 0
  /\ sel_call.before[1].is_some
  /\ last_selection = sel_call.before[1]

\* The segments joined, and the remaining chunk as it is joined to them (its
\* whitespace normalized).
JoinedSegments == Concat(bnd_segments)

RemainingChunk == normalize_segment_text_for_post_process(bnd_remaining)

\* The joined segments do not end with whitespace or an opening bracket or
\* quote, and the remaining chunk does not start with whitespace or one of
\* . , ; : ! ? ) ] }
BoundaryNeedsSpace ==
  /\ ~(/\ JoinedSegments # <<>>
       /\ JoinedSegments[Len(JoinedSegments)] \in {" ", "n", "(", "[", "{", "\"", "'"})
  /\ ~(/\ RemainingChunk # <<>>
       /\ RemainingChunk[1] \in {" ", "n", ".", ",", ";", ":", "!", "?", ")", "]", "}"})

RebuiltWithSpaceIffNeeded ==
  bnd_raw = IF BoundaryNeedsSpace
            THEN JoinedSegments \o <<" ">> \o RemainingChunk
            ELSE JoinedSegments \o RemainingChunk

\* C35 as stated: when the raw text is rebuilt from pre-emitted segments and a
\* non-empty remaining chunk, one space is inserted at the boundary if and only
\* if the joined segments do not end with whitespace or an opening bracket or
\* quote and the chunk does not start with whitespace or closing punctuation;
\* otherwise the parts are concatenated with nothing between them.
C35_BoundarySpace ==
  (bnd_pc = "returned" /\ bnd_segments # <<>> /\ RemainingChunk # <<>>) =>
    RebuiltWithSpaceIffNeeded

\* C35 amended: the same, for joined segments that are not empty; after
\* segments that are all empty the raw text is the remaining chunk alone, with
\* no space before it.
C35_BoundarySpaceAfterText ==
  (bnd_pc = "returned" /\ bnd_segments # <<>> /\ RemainingChunk # <<>>) =>
    IF JoinedSegments # <<>> THEN RebuiltWithSpaceIffNeeded
    ELSE bnd_raw = RemainingChunk

C35_Witness ==
  /\ bnd_pc = "returned"
  /\ bnd_segments = <<<<"a">>>>
  /\ bnd_remaining = <<" ", "a">>
  /\ bnd_raw = <<"a", " ", "a">>

\* C36: a transcribe call never checks the engine (and so never returns "model
\* is not loaded") while a load thread is running; a call parked on the
\* condition variable is parked only while is_loading is set (the clearing of
\* the flag wakes it: no lost wake-up); and every call made returns.
C36_TranscribeWaitsForLoad ==
  /\ [](\A t \in TranscribeThreads :
          tr_pc[t] = "returned" => ~tr_checked_in_flight[t])
  /\ [](\A t \in TranscribeThreads : tr_pc[t] = "waiting" => is_loading)
  /\ \A t \in TranscribeThreads : (tr_pc[t] = "acquire") ~> (tr_pc[t] = "returned")

C36_Witness ==
  /\ load_pc = "idle"
  /\ ~is_loading
  /\ \E t \in TranscribeThreads : tr_pc[t] = "woken"
  /\ \E t \in TranscribeThreads : tr_pc[t] = "returned" /\ tr_result[t] = "engine"

\* The two calls run one after the other, first then second, return what the
\* concurrent calls returned and leave the memory they left.
SequentialOrder(first, second) ==
  LET a == SelectAfterRecv(conc_args, score_profiles(conc_scoring[first]), conc_initial)
      b == SelectAfterRecv(conc_args, score_profiles(conc_scoring[second]), a.memory)
  IN /\ conc_result[first] = a.result
     /\ conc_result[second] = b.result
     /\ conc_memory = b.memory

\* C39: when two concurrent selection calls on one selector have returned,
\* the values they returned and the memory they left are those of the two
\* calls run in one of the two sequential orders.
C39_CallsSerializable ==
  (\A t \in ConcCalls : conc_pc[t] = "returned") =>
    SequentialOrder(1, 2) \/ SequentialOrder(2, 1)

\* Call j of the text-injection service put text of the run into the target
\* and succeeded.
TextInjected(j) ==
  /\ calls[j].op \in {"paste", "paste_raw", "apply_text_diff"}
  /\ calls[j].site # "trailing"
  /\ calls[j].ok

\* Call k sends the auto-submit key or the trailing space.
SubmitOrTrailingSpace(k) ==
  \/ calls[k].op = "auto_submit_key"
  \/ calls[k].op = "paste_raw" /\ calls[k].site = "trailing"

\* C40: the auto-submit key and the trailing space are sent only after a
\* successful injection of the run's text: none follows a paste that failed
\* or that was skipped because the final text is empty, with post-processing
\* enabled or not.
C40_SubmitOnlyAfterInjection ==
  \A k \in DOMAIN calls :
    SubmitOrTrailingSpace(k) => \E j \in 1..(k - 1) : TextInjected(j)

====
